---- MODULE Spec2Model ----
(***************************************************************************)
(* State-trie migration pallet (substrate/frame/state-trie-migration).     *)
(*                                                                         *)
(* The model keeps the user key-value store (top namespace and the default *)
(* child namespaces), the three storage cells of the pallet                *)
(* (MigrationProcess, AutoLimits, SignedMigrationMaxLimits), the balances  *)
(* of the callers, and a record of the most recent call (its arguments,    *)
(* the pallet state it started from, and what it returned and emitted).    *)
(* Every dispatchable and the on_initialize hook is one action.            *)
(***************************************************************************)
EXTENDS Integers, Sequences, FiniteSets, TLC

VARIABLES
    top,                      \* top namespace: key -> value
    child,                    \* child namespaces: child root -> (key -> value)
    MigrationProcess,         \* StorageValue<MigrationTask>, as encoded
    AutoLimits,               \* StorageValue<Option<MigrationLimits>>
    SignedMigrationMaxLimits, \* StorageValue<MigrationLimits, OptionQuery>
    balance,                  \* account -> [free, held]
    top0,                     \* the top namespace at genesis
    child0,                   \* the child namespaces at genesis
    last,                     \* the most recent call
    log,                      \* the keys the block hook rewrote, in order
    block,                    \* the parity of the number of blocks produced
    sums,                     \* the dyn counters of all exhaustion runs, added up
    hrmp                      \* the storage of the HRMP pallet

vars == <<top, child, MigrationProcess, AutoLimits, SignedMigrationMaxLimits,
          balance, top0, child0, last, log, block, sums, hrmp>>

(***************************************************************************)
(* Bounds of the model.                                                    *)
(***************************************************************************)
\* Config::MaxKeyLen; the child roots of the model are 24 bytes long.
MaxKeyLen == 24
\* At most this many user entries (top keys and child keys) in a store.
MaxKeys == 3
\* limits.item ranges over 0..MaxItem.
MaxItem == 2
\* The largest limits.size and size witness.
MaxSize == 2
\* Width of the u32 counters: they saturate at U32Max.
U32Max == 31
\* The free balance of the caller at genesis: one largest deposit.
InitialBalance == 7

(***************************************************************************)
(* Program constants (the mock runtime).                                   *)
(***************************************************************************)
SignedDepositPerItem == 1
SignedDepositBase == 5

Min(a, b) == IF a < b THEN a ELSE b

\* u32 addition that wraps around.
wrapping_add(a, b) == (a + b) % (U32Max + 1)

saturating_add(a, b) == Min(a + b, U32Max)

None == [some |-> FALSE]

Some(v) == [some |-> TRUE, value |-> v]

(***************************************************************************)
(* Keys are byte strings, ordered as Vec<u8> is.                           *)
(***************************************************************************)
\* b":child_storage:default:"
DEFAULT_CHILD_STORAGE_KEY_PREFIX ==
    <<58, 99, 104, 105, 108, 100, 95, 115, 116, 111, 114, 97, 103, 101, 58,
      100, 101, 102, 97, 117, 108, 116, 58>>

starts_with(k, p) ==
    /\ Len(k) >= Len(p)
    /\ \A i \in 1..Len(p) : k[i] = p[i]

LexLess(a, b) ==
    \/ /\ Len(a) < Len(b)
       /\ \A i \in 1..Len(a) : a[i] = b[i]
    \/ \E i \in 1..Min(Len(a), Len(b)) :
          /\ a[i] < b[i]
          /\ \A j \in 1..(i - 1) : a[j] = b[j]

\* The entries of a namespace; a namespace nobody wrote to is empty.
ChildOf(ch, root) == IF root \in DOMAIN ch THEN ch[root] ELSE <<>>

\* sp_io::storage::next_key: the smallest key strictly after `after`.
next_key(ns, after) ==
    LET later == {k \in DOMAIN ns : LexLess(after, k)}
    IN  IF later = {} THEN None
        ELSE Some(CHOOSE k \in later : \A o \in later : o = k \/ LexLess(k, o))

\* sp_io::storage::get
get(ns, k) == IF k \in DOMAIN ns THEN Some(ns[k]) ELSE None

\* sp_io::storage::set
set(ns, k, data) == [x \in DOMAIN ns \cup {k} |-> IF x = k THEN data ELSE ns[x]]

\* sp_io::default_child_storage::set
child_set(ch, root, k, data) ==
    [r \in DOMAIN ch \cup {root} |->
        IF r = root THEN set(ChildOf(ch, root), k, data) ELSE ch[r]]

\* A key of the top namespace, and a key of the child namespace `root`.
TopEntry(k) == [ns |-> "top", root |-> <<>>, key |-> k]

ChildEntry(root, k) == [ns |-> "child", root |-> root, key |-> k]

(***************************************************************************)
(* Progress and MigrationTask.                                             *)
(***************************************************************************)
ToStart == [tag |-> "ToStart", key |-> <<>>]

LastKey(k) == [tag |-> "LastKey", key |-> k]

Complete == [tag |-> "Complete", key |-> <<>>]

\* MigrationTask::default()
DefaultTask ==
    [progress_top |-> ToStart, progress_child |-> ToStart,
     dyn_top_items |-> 0, dyn_child_items |-> 0, dyn_size |-> 0,
     size |-> 0, top_items |-> 0, child_items |-> 0]

\* Encode: the #[codec(skip)] fields are not written.
Encode(task) ==
    [progress_top |-> task.progress_top, progress_child |-> task.progress_child,
     size |-> task.size, top_items |-> task.top_items,
     child_items |-> task.child_items]

\* Decode: the #[codec(skip)] fields come back as their defaults.
Decode(enc) ==
    [progress_top |-> enc.progress_top, progress_child |-> enc.progress_child,
     dyn_top_items |-> 0, dyn_child_items |-> 0, dyn_size |-> 0,
     size |-> enc.size, top_items |-> enc.top_items,
     child_items |-> enc.child_items]

finished(task) == task.progress_top.tag = "Complete"

dyn_total_items(task) == saturating_add(task.dyn_child_items, task.dyn_top_items)

\* exhausted comparing the cumulative size, not this run's.
exhausted_cumulative(task, limits) ==
    \/ dyn_total_items(task) >= limits.item
    \/ task.size >= limits.size

\* exhausted stopping one key late.
exhausted_off_by_one(task, limits) ==
    \/ dyn_total_items(task) > limits.item
    \/ task.dyn_size >= limits.size

exhausted(task, limits) ==
    \/ dyn_total_items(task) >= limits.item
    \/ task.dyn_size >= limits.size

(***************************************************************************)
(* A run context: the in-memory task and everything a tick can touch.      *)
(*   rewrites: the keys written, in order, each with its namespace;        *)
(*   ticks:    the number of migrate_tick calls made;                      *)
(*   err:      "" or the error the tick returned.                          *)
(***************************************************************************)
Ctx(task, t, ch, auto) ==
    [task |-> task, top |-> t, child |-> ch, auto |-> auto,
     events |-> <<>>, rewrites |-> <<>>, ticks |-> 0, err |-> ""]

\* Pallet::halt
halt(c, error) ==
    [c EXCEPT !.auto = None,
              !.events = Append(@, [name |-> "Halted", error |-> error])]

\* Pallet::transform_child_key (ChildType::from_prefixed_key)
transform_child_key(root) ==
    IF starts_with(root, DEFAULT_CHILD_STORAGE_KEY_PREFIX)
    THEN Some(SubSeq(root, Len(DEFAULT_CHILD_STORAGE_KEY_PREFIX) + 1, Len(root)))
    ELSE None

\* Pallet::transform_child_key_or_halt: the context after the possible halt,
\* and the child root used (the empty one when the key is no child root).
transform_child_key_or_halt(c, root) ==
    LET key == transform_child_key(root)
    IN  [ctx |-> IF key.some THEN c ELSE halt(c, "BadChildRoot"),
         root |-> IF key.some THEN key.value ELSE <<>>]

\* TopStep writing the key where the value read belongs.
TopStep_writes_key(c, maybe_current_top) ==
    LET data == get(c.top, maybe_current_top.value)
        c1 == IF maybe_current_top.some
              THEN [c EXCEPT
                     !.top = IF data.some
                             THEN set(c.top, maybe_current_top.value,
                                      maybe_current_top.value)
                             ELSE @,
                     !.rewrites = IF data.some
                                  THEN Append(@, TopEntry(maybe_current_top.value))
                                  ELSE @,
                     !.task.dyn_size =
                         saturating_add(@, IF data.some THEN Len(data.value) ELSE 0),
                     !.task.dyn_top_items = saturating_add(@, 1)]
              ELSE c
    IN  [c1 EXCEPT !.task.progress_top =
            IF maybe_current_top.some THEN LastKey(maybe_current_top.value)
            ELSE Complete]

\* The rewrite of one top key and the counters, then the new cursor.
TopStep(c, maybe_current_top) ==
    LET data == get(c.top, maybe_current_top.value)
        c1 == IF maybe_current_top.some
              THEN [c EXCEPT
                     !.top = IF data.some
                             THEN set(c.top, maybe_current_top.value, data.value)
                             ELSE @,
                     !.rewrites = IF data.some
                                  THEN Append(@, TopEntry(maybe_current_top.value))
                                  ELSE @,
                     !.task.dyn_size =
                         saturating_add(@, IF data.some THEN Len(data.value) ELSE 0),
                     !.task.dyn_top_items = saturating_add(@, 1)]
              ELSE c
    IN  [c1 EXCEPT !.task.progress_top =
            IF maybe_current_top.some THEN LastKey(maybe_current_top.value)
            ELSE Complete]

\* migrate_top starting after the empty key instead of with it.
migrate_top_skips_empty_key(c) ==
    LET pt == c.task.progress_top
        Migrate(maybe_current_top) ==
            IF maybe_current_top.some /\ Len(maybe_current_top.value) > MaxKeyLen
            THEN [c EXCEPT !.err = "KeyTooLong"]
            ELSE TopStep(c, maybe_current_top)
    IN  IF pt.tag = "Complete" THEN c
        ELSE Migrate(next_key(c.top, IF pt.tag = "LastKey" THEN pt.key ELSE <<>>))

\* migrate_top keeping what fits of an over-long key in the cursor.
migrate_top_records_long_key(c) ==
    LET pt == c.task.progress_top
        Migrate(maybe_current_top) ==
            IF maybe_current_top.some /\ Len(maybe_current_top.value) > MaxKeyLen
            THEN [c EXCEPT !.err = "KeyTooLong",
                           !.task.progress_top =
                               LastKey(SubSeq(maybe_current_top.value, 1, MaxKeyLen))]
            ELSE TopStep(c, maybe_current_top)
    IN  IF pt.tag = "Complete" THEN c
        ELSE Migrate(IF pt.tag = "LastKey" THEN next_key(c.top, pt.key)
                     ELSE Some(<<>>))

\* MigrationTask::migrate_top: the key to migrate is the one after the last
\* key (KeyTooLong when it does not fit the cursor), or the empty key at
\* ToStart; a Complete cursor returns at once.
migrate_top(c) ==
    LET pt == c.task.progress_top
        Migrate(maybe_current_top) ==
            IF maybe_current_top.some /\ Len(maybe_current_top.value) > MaxKeyLen
            THEN [c EXCEPT !.err = "KeyTooLong"]
            ELSE TopStep(c, maybe_current_top)
    IN  IF pt.tag = "Complete" THEN c
        ELSE Migrate(IF pt.tag = "LastKey" THEN next_key(c.top, pt.key)
                     ELSE Some(<<>>))

\* ChildStep starting the child walk again at its end.
ChildStep_restarts(c, child_root, maybe_current_child) ==
    LET data == get(ChildOf(c.child, child_root), maybe_current_child.value)
        c1 == IF maybe_current_child.some
              THEN [c EXCEPT
                     !.child = IF data.some
                               THEN child_set(c.child, child_root,
                                              maybe_current_child.value, data.value)
                               ELSE @,
                     !.rewrites = IF data.some
                                  THEN Append(@, ChildEntry(child_root, maybe_current_child.value))
                                  ELSE @,
                     !.task.dyn_size =
                         saturating_add(@, IF data.some THEN Len(data.value) ELSE 0),
                     !.task.dyn_child_items = saturating_add(@, 1)]
              ELSE c
    IN  [c1 EXCEPT !.task.progress_child =
            IF maybe_current_child.some THEN LastKey(maybe_current_child.value)
            ELSE ToStart]

\* The rewrite of one child key and the counters, then the new cursor.
ChildStep(c, child_root, maybe_current_child) ==
    LET data == get(ChildOf(c.child, child_root), maybe_current_child.value)
        c1 == IF maybe_current_child.some
              THEN [c EXCEPT
                     !.child = IF data.some
                               THEN child_set(c.child, child_root,
                                              maybe_current_child.value, data.value)
                               ELSE @,
                     !.rewrites = IF data.some
                                  THEN Append(@, ChildEntry(child_root, maybe_current_child.value))
                                  ELSE @,
                     !.task.dyn_size =
                         saturating_add(@, IF data.some THEN Len(data.value) ELSE 0),
                     !.task.dyn_child_items = saturating_add(@, 1)]
              ELSE c
    IN  [c1 EXCEPT !.task.progress_child =
            IF maybe_current_child.some THEN LastKey(maybe_current_child.value)
            ELSE Complete]

\* MigrationTask::migrate_child: under the child root of the last top key,
\* the key to migrate is the one after the last child key (KeyTooLong when it
\* does not fit the cursor), or the empty key at ToStart; any other pair of
\* cursors returns at once.
migrate_child(c) ==
    LET pc == c.task.progress_child
        pt == c.task.progress_top
        Migrate(tr, maybe_current_child) ==
            IF maybe_current_child.some /\ Len(maybe_current_child.value) > MaxKeyLen
            THEN [tr.ctx EXCEPT !.err = "KeyTooLong"]
            ELSE ChildStep(tr.ctx, tr.root, maybe_current_child)
        Under(tr) ==
            Migrate(tr, IF pc.tag = "LastKey"
                        THEN next_key(ChildOf(c.child, tr.root), pc.key)
                        ELSE Some(<<>>))
    IN  IF pt.tag = "LastKey" /\ pc.tag \in {"LastKey", "ToStart"}
        THEN Under(transform_child_key_or_halt(c, pt.key))
        ELSE c

\* migrate_tick leaving progress_child at Complete after the child walk.
migrate_tick_no_reset(c0) ==
    LET c == [c0 EXCEPT !.ticks = @ + 1]
        pt == c.task.progress_top
        pc == c.task.progress_child
        arm == CASE pt.tag = "ToStart" -> "top"
                 [] pt.tag = "LastKey" /\ pc.tag = "LastKey" -> "child"
                 [] pt.tag = "LastKey" /\ pc.tag = "ToStart" ->
                       IF ~starts_with(pt.key, DEFAULT_CHILD_STORAGE_KEY_PREFIX)
                       THEN "top"
                       ELSE "child"
                 [] pt.tag = "LastKey" /\ pc.tag = "Complete" -> "top, child to start"
                 [] pt.tag = "Complete" -> "done"
    IN  CASE arm = "child" -> migrate_child(c)
          [] arm = "done" -> c
          [] OTHER -> migrate_top(c)

\* migrate_tick going on with the top keys at a child root.
migrate_tick_skips_children(c0) ==
    LET c == [c0 EXCEPT !.ticks = @ + 1]
        pt == c.task.progress_top
        pc == c.task.progress_child
        arm == CASE pt.tag = "ToStart" -> "top"
                 [] pt.tag = "LastKey" /\ pc.tag = "LastKey" -> "child"
                 [] pt.tag = "LastKey" /\ pc.tag = "ToStart" -> "top"
                 [] pt.tag = "LastKey" /\ pc.tag = "Complete" -> "top, child to start"
                 [] pt.tag = "Complete" -> "done"
        Reset(c1) ==
            IF arm = "top, child to start" /\ c1.err = ""
            THEN [c1 EXCEPT !.task.progress_child = ToStart]
            ELSE c1
    IN  CASE arm = "child" -> migrate_child(c)
          [] arm = "done" -> c
          [] OTHER -> Reset(migrate_top(c))

\* migrate_tick visiting the first child key in the tick that reaches a
\* child root.
migrate_tick_enters_child(c0) ==
    LET c == [c0 EXCEPT !.ticks = @ + 1]
        pt == c.task.progress_top
        pc == c.task.progress_child
        arm == CASE pt.tag = "ToStart" -> "top"
                 [] pt.tag = "LastKey" /\ pc.tag = "LastKey" -> "child"
                 [] pt.tag = "LastKey" /\ pc.tag = "ToStart" ->
                       IF ~starts_with(pt.key, DEFAULT_CHILD_STORAGE_KEY_PREFIX)
                       THEN "top"
                       ELSE "child"
                 [] pt.tag = "LastKey" /\ pc.tag = "Complete" -> "top, child to start"
                 [] pt.tag = "Complete" -> "done"
        Reset(c1) ==
            IF arm = "top, child to start" /\ c1.err = ""
            THEN [c1 EXCEPT !.task.progress_child = ToStart]
            ELSE c1
        Enter(c2) ==
            IF /\ c2.err = ""
               /\ c2.task.progress_top.tag = "LastKey"
               /\ c2.task.progress_child.tag = "ToStart"
               /\ starts_with(c2.task.progress_top.key, DEFAULT_CHILD_STORAGE_KEY_PREFIX)
            THEN migrate_child(c2)
            ELSE c2
    IN  CASE arm = "child" -> migrate_child(c)
          [] arm = "done" -> c
          [] OTHER -> Enter(Reset(migrate_top(c)))

\* MigrationTask::migrate_tick: the arm of the match on the two cursors, then
\* the call that arm makes.
migrate_tick(c0) ==
    LET c == [c0 EXCEPT !.ticks = @ + 1]
        pt == c.task.progress_top
        pc == c.task.progress_child
        arm == CASE pt.tag = "ToStart" -> "top"
                 [] pt.tag = "LastKey" /\ pc.tag = "LastKey" -> "child"
                 [] pt.tag = "LastKey" /\ pc.tag = "ToStart" ->
                       IF ~starts_with(pt.key, DEFAULT_CHILD_STORAGE_KEY_PREFIX)
                       THEN "top"
                       ELSE "child"
                 [] pt.tag = "LastKey" /\ pc.tag = "Complete" -> "top, child to start"
                 [] pt.tag = "Complete" -> "done"
        Reset(c1) ==
            IF arm = "top, child to start" /\ c1.err = ""
            THEN [c1 EXCEPT !.task.progress_child = ToStart]
            ELSE c1
    IN  CASE arm = "child" -> migrate_child(c)
          [] arm = "done" -> c
          [] OTHER -> Reset(migrate_top(c))

\* The while loop of migrate_until_exhaustion.
RECURSIVE TickLoop(_, _)
TickLoop(c, limits) ==
    LET Continue(c1) == IF c1.err # "" THEN c1 ELSE TickLoop(c1, limits)
    IN  IF ~exhausted(c.task, limits) /\ ~finished(c.task)
        THEN Continue(migrate_tick(c))
        ELSE c

\* migrate_until_exhaustion without the zero-limit return, as a loop that
\* checks its condition after the tick.
migrate_until_exhaustion_tick_first(c, limits) ==
    LET Fold(c1) ==
            IF c1.err # "" THEN c1
            ELSE [c1 EXCEPT
                   !.task.size = saturating_add(@, c1.task.dyn_size),
                   !.task.child_items = saturating_add(@, c1.task.dyn_child_items),
                   !.task.top_items = saturating_add(@, c1.task.dyn_top_items)]
        Continue(c0) == IF c0.err # "" THEN c0 ELSE TickLoop(c0, limits)
    IN  Fold(Continue(migrate_tick(c)))

\* MigrationTask::migrate_until_exhaustion
migrate_until_exhaustion(c, limits) ==
    LET Fold(c1) ==
            IF c1.err # "" THEN c1
            ELSE [c1 EXCEPT
                   !.task.size = saturating_add(@, c1.task.dyn_size),
                   !.task.child_items = saturating_add(@, c1.task.dyn_child_items),
                   !.task.top_items = saturating_add(@, c1.task.dyn_top_items)]
    IN  IF limits.item = 0 \/ limits.size = 0 THEN c
        ELSE Fold(TickLoop(c, limits))

(***************************************************************************)
(* The stores of the model: every store of at most MaxKeys user entries    *)
(* drawn from a universe with the empty key, keys before and after the     *)
(* child roots, two child namespaces, and an over-long key in each         *)
(* namespace. A child root is a top key exactly when its namespace has     *)
(* entries.                                                                *)
(***************************************************************************)
LongKey == [i \in 1..(MaxKeyLen + 1) |-> 1]

TopUniverse == {<<>>, <<1>>, <<107>>, LongKey}

ChildRoots == {<<97>>, <<98>>}

ChildUniverse == {<<>>, <<1>>, LongKey}

EntryUniverse ==
    {TopEntry(k) : k \in TopUniverse}
        \cup {ChildEntry(r, k) : r \in ChildRoots, k \in ChildUniverse}

ValueOf(e) ==
    IF e.ns = "top"
    THEN CASE e.key = <<>> -> <<66>>
           [] e.key = <<1>> -> <<>>
           [] e.key = <<107>> -> <<1, 1>>
           [] OTHER -> <<>>
    ELSE CASE e.key = <<>> -> <<66>>
           [] e.key = <<1>> -> <<2, 2>>
           [] OTHER -> <<>>

\* The value stored under a child root key in the top namespace.
RootValue(r) == r

StoreTop(es) ==
    LET plain == {e.key : e \in {x \in es : x.ns = "top"}}
        roots == {e.root : e \in {x \in es : x.ns = "child"}}
        rootKeys == {DEFAULT_CHILD_STORAGE_KEY_PREFIX \o r : r \in roots}
    IN  [k \in plain \cup rootKeys |->
            IF k \in plain THEN ValueOf(TopEntry(k))
            ELSE RootValue(transform_child_key(k).value)]

StoreChild(es) ==
    LET roots == {e.root : e \in {x \in es : x.ns = "child"}}
    IN  [r \in roots |->
            [k \in {e.key : e \in {x \in es : x.ns = "child" /\ x.root = r}} |->
                ValueOf(ChildEntry(r, k))]]

Stores == {es \in SUBSET EntryUniverse : Cardinality(es) <= MaxKeys}

\* The stores the extrinsics are run on: one child namespace, a top key
\* after its root, and an over-long key in each namespace.
CallUniverse ==
    {TopEntry(<<107>>), TopEntry(LongKey),
     ChildEntry(<<97>>, <<1>>), ChildEntry(<<97>>, LongKey)}

CallStores == {es \in Stores : es \subseteq CallUniverse}

\* The byte budgets and byte witnesses a caller passes.
Sizes == {0, MaxSize}

SizeWitnesses == {1, MaxSize}

Limits == [item : 0..MaxItem, size : Sizes]

Accounts == {1}

\* The persisted pallet state a call starts from.
Pre ==
    [MigrationProcess |-> MigrationProcess, AutoLimits |-> AutoLimits,
     SignedMigrationMaxLimits |-> SignedMigrationMaxLimits, balance |-> balance]

NoArgs ==
    [who |-> 0, limits |-> [item |-> 0, size |-> 0], real_size_upper |-> 0,
     witness_task |-> DefaultTask, keys |-> <<>>, root |-> <<>>,
     maybe_config |-> None, progress_top |-> ToStart, progress_child |-> ToStart]

\* RawOrigin::Root, and RawOrigin::Signed(a) for an account a.
Root == 0

Origins == {Root} \cup Accounts

(***************************************************************************)
(* HRMP: horizontal message passing channels between parachains            *)
(* (polkadot/runtime/parachains/src/hrmp.rs). The storage of the pallet,   *)
(* the balances it reserves, the set of registered paras and the block     *)
(* number are the fields of one record. The head of the message queue      *)
(* chain of a channel is a hash of its messages and is left out.           *)
(***************************************************************************)
\* The registered paras, and one that is party to no channel.
ParaA == 2000

ParaB == 2001

ParaC == 2002

Outsider == 2003

ParaIds == {ParaA, ParaB, ParaC}

HrmpChannelId(sender, recipient) == [sender |-> sender, recipient |-> recipient]

ChannelIds ==
    {c \in [sender : ParaIds, recipient : ParaIds] : c.sender # c.recipient}

is_participant(channel_id, p) == channel_id.sender = p \/ channel_id.recipient = p

is_system(p) == p < 2000

\* The active host configuration.
hrmp_channel_max_capacity == 2

hrmp_channel_max_message_size == 2

hrmp_channel_max_total_size == 3

hrmp_max_parachain_outbound_channels == 2

hrmp_max_parachain_inbound_channels == 2

hrmp_max_message_num_per_candidate == 2

hrmp_sender_deposit == 2

hrmp_recipient_deposit == 1

\* What a para owns at genesis, and the last block of a run.
ParaBalance == 3

MaxBlock == 3

HrmpGenesis ==
    [HrmpOpenChannelRequests         |-> [c \in {} |-> 0],
     HrmpOpenChannelRequestsList     |-> << >>,
     HrmpOpenChannelRequestCount     |-> [p \in ParaIds |-> 0],
     HrmpAcceptedChannelRequestCount |-> [p \in ParaIds |-> 0],
     HrmpCloseChannelRequests        |-> {},
     HrmpCloseChannelRequestsList    |-> << >>,
     HrmpWatermarks                  |-> [p \in ParaIds |-> None],
     HrmpChannels                    |-> [c \in {} |-> 0],
     HrmpIngressChannelsIndex        |-> [p \in ParaIds |-> << >>],
     HrmpEgressChannelsIndex         |-> [p \in ParaIds |-> << >>],
     HrmpChannelContents             |-> [c \in ChannelIds |-> << >>],
     HrmpChannelDigests              |-> [p \in ParaIds |-> << >>],
     free                            |-> [p \in ParaIds |-> ParaBalance],
     reserved                        |-> [p \in ParaIds |-> 0],
     paras                           |-> ParaIds,
     now                             |-> 1,
     panic                           |-> FALSE]

\* A map with one more entry, and with one entry fewer.
MapInsert(m, k, v) == [x \in DOMAIN m \cup {k} |-> IF x = k THEN v ELSE m[x]]

MapRemove(m, k) == [x \in DOMAIN m \ {k} |-> m[x]]

\* Vec::len, Vec::iter().position (0 when absent) and Vec::swap_remove.
position(v, x) ==
    IF \E i \in 1..Len(v) : v[i] = x
    THEN CHOOSE i \in 1..Len(v) : v[i] = x /\ \A j \in 1..(i - 1) : v[j] # x
    ELSE 0

swap_remove(v, pos) ==
    [i \in 1..(Len(v) - 1) |-> IF i = pos THEN v[Len(v)] ELSE v[i]]

\* What a call returns: the error (none when it is Ok) and the storage.
HrmpResult(e, h) == [err |-> e, h |-> h]

\* Currency::reserve and Currency::unreserve on the account of a para.
reserve(h, who, amount) ==
    [h EXCEPT !.free[who] = @ - amount, !.reserved[who] = @ + amount]

unreserve(h, who, amount) ==
    LET Actual(a) == [h EXCEPT !.free[who] = @ + a, !.reserved[who] = @ - a]
    IN  Actual(IF h.reserved[who] < amount THEN h.reserved[who] ELSE amount)

is_valid_para(h, p) == p \in h.paras

decrease_open_channel_request_count(h, sender) ==
    [h EXCEPT !.HrmpOpenChannelRequestCount[sender] = IF @ = 0 THEN 0 ELSE @ - 1]

decrease_accepted_channel_request_count(h, recipient) ==
    [h EXCEPT !.HrmpAcceptedChannelRequestCount[recipient] = IF @ = 0 THEN 0 ELSE @ - 1]

init_open_channel(h, origin, recipient, proposed_max_capacity, proposed_max_message_size) ==
    LET channel_id == HrmpChannelId(origin, recipient)
        deposit == IF is_system(origin) \/ is_system(recipient)
                   THEN 0 ELSE hrmp_sender_deposit
        Store(r) ==
            [r EXCEPT
               !.HrmpOpenChannelRequestCount[origin] = @ + 1,
               !.HrmpOpenChannelRequests =
                   MapInsert(@, channel_id,
                             [confirmed |-> FALSE,
                              sender_deposit |-> deposit,
                              max_capacity |-> proposed_max_capacity,
                              max_message_size |-> proposed_max_message_size,
                              max_total_size |-> hrmp_channel_max_total_size]),
               !.HrmpOpenChannelRequestsList = Append(@, channel_id)]
    IN  IF origin = recipient THEN HrmpResult("OpenHrmpChannelToSelf", h)
        ELSE IF ~is_valid_para(h, recipient)
        THEN HrmpResult("OpenHrmpChannelInvalidRecipient", h)
        ELSE IF ~(proposed_max_capacity > 0)
        THEN HrmpResult("OpenHrmpChannelZeroCapacity", h)
        ELSE IF ~(proposed_max_capacity <= hrmp_channel_max_capacity)
        THEN HrmpResult("OpenHrmpChannelCapacityExceedsLimit", h)
        ELSE IF ~(proposed_max_message_size > 0)
        THEN HrmpResult("OpenHrmpChannelZeroMessageSize", h)
        ELSE IF ~(proposed_max_message_size <= hrmp_channel_max_message_size)
        THEN HrmpResult("OpenHrmpChannelMessageSizeExceedsLimit", h)
        ELSE IF channel_id \in DOMAIN h.HrmpOpenChannelRequests
        THEN HrmpResult("OpenHrmpChannelAlreadyRequested", h)
        ELSE IF channel_id \in DOMAIN h.HrmpChannels
        THEN HrmpResult("OpenHrmpChannelAlreadyExists", h)
        ELSE IF ~(Len(h.HrmpEgressChannelsIndex[origin])
                    + h.HrmpOpenChannelRequestCount[origin]
                    < hrmp_max_parachain_outbound_channels)
        THEN HrmpResult("OpenHrmpChannelLimitExceeded", h)
        ELSE IF deposit # 0 /\ ~(h.free[origin] >= deposit)
        THEN HrmpResult("InsufficientBalance", h)
        ELSE HrmpResult("", Store(IF deposit # 0 THEN reserve(h, origin, deposit) ELSE h))

accept_open_channel(h, origin, sender) ==
    LET channel_id == HrmpChannelId(sender, origin)
        deposit == IF is_system(origin) \/ is_system(sender)
                   THEN 0 ELSE hrmp_recipient_deposit
        Store(r) ==
            [r EXCEPT
               !.HrmpOpenChannelRequests[channel_id].confirmed = TRUE,
               !.HrmpAcceptedChannelRequestCount[origin] = @ + 1]
    IN  IF channel_id \notin DOMAIN h.HrmpOpenChannelRequests
        THEN HrmpResult("AcceptHrmpChannelDoesntExist", h)
        ELSE IF h.HrmpOpenChannelRequests[channel_id].confirmed
        THEN HrmpResult("AcceptHrmpChannelAlreadyConfirmed", h)
        ELSE IF ~(Len(h.HrmpIngressChannelsIndex[origin])
                    + h.HrmpAcceptedChannelRequestCount[origin]
                    < hrmp_max_parachain_inbound_channels)
        THEN HrmpResult("AcceptHrmpChannelLimitExceeded", h)
        ELSE IF deposit # 0 /\ ~(h.free[origin] >= deposit)
        THEN HrmpResult("InsufficientBalance", h)
        ELSE HrmpResult("", Store(IF deposit # 0 THEN reserve(h, origin, deposit) ELSE h))

\* cancel_open_request keeping the deposit reserved.
cancel_open_request_keeps_deposit(h, origin, channel_id) ==
    LET Removed(pos) ==
            [h EXCEPT
               !.HrmpOpenChannelRequests = MapRemove(@, channel_id),
               !.HrmpOpenChannelRequestsList =
                   IF pos # 0 THEN swap_remove(@, pos) ELSE @]
    IN  IF ~is_participant(channel_id, origin)
        THEN HrmpResult("CancelHrmpOpenChannelUnauthorized", h)
        ELSE IF channel_id \notin DOMAIN h.HrmpOpenChannelRequests
        THEN HrmpResult("OpenHrmpChannelDoesntExist", h)
        ELSE IF h.HrmpOpenChannelRequests[channel_id].confirmed
        THEN HrmpResult("OpenHrmpChannelAlreadyConfirmed", h)
        ELSE HrmpResult("", decrease_open_channel_request_count(
                     Removed(position(h.HrmpOpenChannelRequestsList, channel_id)),
                     channel_id.sender))

cancel_open_request_keeps_list(h, origin, channel_id) ==
    IF ~is_participant(channel_id, origin)
    THEN HrmpResult("CancelHrmpOpenChannelUnauthorized", h)
    ELSE IF channel_id \notin DOMAIN h.HrmpOpenChannelRequests
    THEN HrmpResult("OpenHrmpChannelDoesntExist", h)
    ELSE IF h.HrmpOpenChannelRequests[channel_id].confirmed
    THEN HrmpResult("OpenHrmpChannelAlreadyConfirmed", h)
    ELSE HrmpResult("", unreserve(
             decrease_open_channel_request_count(
                 [h EXCEPT !.HrmpOpenChannelRequests = MapRemove(@, channel_id)],
                 channel_id.sender),
             channel_id.sender,
             h.HrmpOpenChannelRequests[channel_id].sender_deposit))

cancel_open_request(h, origin, channel_id) ==
    LET Removed(pos) ==
            [h EXCEPT
               !.HrmpOpenChannelRequests = MapRemove(@, channel_id),
               !.HrmpOpenChannelRequestsList =
                   IF pos # 0 THEN swap_remove(@, pos) ELSE @]
    IN  IF ~is_participant(channel_id, origin)
        THEN HrmpResult("CancelHrmpOpenChannelUnauthorized", h)
        ELSE IF channel_id \notin DOMAIN h.HrmpOpenChannelRequests
        THEN HrmpResult("OpenHrmpChannelDoesntExist", h)
        ELSE IF h.HrmpOpenChannelRequests[channel_id].confirmed
        THEN HrmpResult("OpenHrmpChannelAlreadyConfirmed", h)
        ELSE HrmpResult("", unreserve(
                 decrease_open_channel_request_count(
                     Removed(position(h.HrmpOpenChannelRequestsList, channel_id)),
                     channel_id.sender),
                 channel_id.sender,
                 h.HrmpOpenChannelRequests[channel_id].sender_deposit))

close_channel(h, origin, channel_id) ==
    IF ~is_participant(channel_id, origin)
    THEN HrmpResult("CloseHrmpChannelUnauthorized", h)
    ELSE IF channel_id \notin DOMAIN h.HrmpChannels
    THEN HrmpResult("CloseHrmpChannelDoesntExist", h)
    ELSE IF channel_id \in h.HrmpCloseChannelRequests
    THEN HrmpResult("CloseHrmpChannelAlreadyUnderway", h)
    ELSE HrmpResult("", [h EXCEPT
                   !.HrmpCloseChannelRequests = @ \cup {channel_id},
                   !.HrmpCloseChannelRequestsList = Append(@, channel_id)])

\* <[T]>::binary_search on a vector sorted ascending: the index (from 0) of
\* the element, or the index where it would be inserted.
RECURSIVE binary_search_from(_, _, _, _)
binary_search_from(v, x, lo, hi) ==
    IF lo >= hi THEN [found |-> FALSE, index |-> lo]
    ELSE LET Probe(mid) ==
                 IF v[mid + 1] = x THEN [found |-> TRUE, index |-> mid]
                 ELSE IF v[mid + 1] < x THEN binary_search_from(v, x, mid + 1, hi)
                 ELSE binary_search_from(v, x, lo, mid)
         IN  Probe((lo + hi) \div 2)

\* The mutation of an index: Vec::insert where the search says, unless found.
insert_sorted_appends(v, x) ==
    IF \E i \in 1..Len(v) : v[i] = x THEN v ELSE Append(v, x)

insert_sorted(v, x) ==
    LET At(r) == IF r.found THEN v
                 ELSE SubSeq(v, 1, r.index) \o <<x>> \o SubSeq(v, r.index + 1, Len(v))
    IN  At(binary_search_from(v, x, 0, Len(v)))

\* The mutation of an index: Vec::remove of the element found.
remove_sorted(v, x) ==
    LET At(r) == IF r.found
                 THEN SubSeq(v, 1, r.index) \o SubSeq(v, r.index + 2, Len(v))
                 ELSE v
    IN  At(binary_search_from(v, x, 0, Len(v)))

close_hrmp_channel(h, channel_id) ==
    LET Refund(r) ==
            IF channel_id \in DOMAIN r.HrmpChannels
            THEN unreserve(
                     unreserve([r EXCEPT !.HrmpChannels = MapRemove(@, channel_id)],
                               channel_id.sender,
                               r.HrmpChannels[channel_id].sender_deposit),
                     channel_id.recipient,
                     r.HrmpChannels[channel_id].recipient_deposit)
            ELSE r
        Unlink(r) ==
            [r EXCEPT
               !.HrmpChannelContents[channel_id] = << >>,
               !.HrmpEgressChannelsIndex[channel_id.sender] =
                   remove_sorted(@, channel_id.recipient),
               !.HrmpIngressChannelsIndex[channel_id.recipient] =
                   remove_sorted(@, channel_id.sender)]
    IN  Unlink(Refund(h))

RECURSIVE close_all(_, _, _)
close_all(h, channels, i) ==
    IF i > Len(channels) THEN h
    ELSE close_all(close_hrmp_channel(h, channels[i]), channels, i + 1)

\* Channels in the derived order of HrmpChannelId: by sender, then recipient.
RECURSIVE sorted_channels(_)
sorted_channels(s) ==
    IF s = {} THEN << >>
    ELSE LET First(c) == <<c>> \o sorted_channels(s \ {c})
             Precedes(a, b) ==
                 a.sender < b.sender
                     \/ (a.sender = b.sender /\ a.recipient < b.recipient)
         IN  First(CHOOSE c \in s : \A d \in s \ {c} : Precedes(c, d))

RECURSIVE clean_requests(_, _, _, _)
clean_requests(h, go, outgoing, i) ==
    IF i > Len(go) THEN h
    ELSE IF go[i] \notin DOMAIN h.HrmpOpenChannelRequests
    THEN clean_requests(h, go, outgoing, i + 1)
    ELSE LET req_id == go[i]
             req_data == h.HrmpOpenChannelRequests[go[i]]
             Taken == [h EXCEPT !.HrmpOpenChannelRequests = MapRemove(@, req_id)]
             Sender(r) ==
                 IF req_id.sender \notin outgoing
                 THEN unreserve(r, req_id.sender, req_data.sender_deposit)
                 ELSE r
             Recipient(r) ==
                 IF req_data.confirmed
                 THEN decrease_accepted_channel_request_count(
                          IF req_id.recipient \notin outgoing
                          THEN unreserve(r, req_id.recipient, hrmp_recipient_deposit)
                          ELSE r,
                          req_id.recipient)
                 ELSE r
         IN  clean_requests(Recipient(Sender(Taken)), go, outgoing, i + 1)

clean_open_channel_requests(h, outgoing) ==
    LET Goes(req_id) == \E id \in outgoing : is_participant(req_id, id)
        Stays(req_id) == ~Goes(req_id)
    IN  clean_requests(
            [h EXCEPT !.HrmpOpenChannelRequestsList = SelectSeq(@, Stays)],
            SelectSeq(h.HrmpOpenChannelRequestsList, Goes), outgoing, 1)

clean_hrmp_after_outgoing(h, outgoing_para) ==
    LET ingress == {HrmpChannelId(h.HrmpIngressChannelsIndex[outgoing_para][i], outgoing_para) :
                      i \in 1..Len(h.HrmpIngressChannelsIndex[outgoing_para])}
        egress == {HrmpChannelId(outgoing_para, h.HrmpEgressChannelsIndex[outgoing_para][i]) :
                     i \in 1..Len(h.HrmpEgressChannelsIndex[outgoing_para])}
    IN  close_all([h EXCEPT
                     !.HrmpOpenChannelRequestCount[outgoing_para] = 0,
                     !.HrmpAcceptedChannelRequestCount[outgoing_para] = 0,
                     !.HrmpIngressChannelsIndex[outgoing_para] = << >>,
                     !.HrmpEgressChannelsIndex[outgoing_para] = << >>],
                  sorted_channels(ingress \cup egress), 1)

RECURSIVE clean_all_outgoing(_, _, _)
clean_all_outgoing(h, outgoing, i) ==
    IF i > Len(outgoing) THEN h
    ELSE clean_all_outgoing(clean_hrmp_after_outgoing(h, outgoing[i]), outgoing, i + 1)

perform_outgoing_para_cleanup(h, outgoing) ==
    clean_all_outgoing(
        clean_open_channel_requests(h, {outgoing[i] : i \in 1..Len(outgoing)}),
        outgoing, 1)

\* The channel a confirmed request becomes.
NewChannel(channel_id, request) ==
    [sender_deposit |-> request.sender_deposit,
     recipient_deposit |-> IF is_system(channel_id.sender) \/ is_system(channel_id.recipient)
                           THEN 0 ELSE hrmp_recipient_deposit,
     max_capacity |-> request.max_capacity,
     max_total_size |-> request.max_total_size,
     max_message_size |-> request.max_message_size,
     msg_count |-> 0,
     total_size |-> 0]

\* The loop of process_hrmp_open_channel_requests without the test of `confirmed`.
RECURSIVE open_every_request_from(_, _, _)
open_every_request_from(h, open_req_channels, idx) ==
    IF idx = 0 THEN [h EXCEPT !.HrmpOpenChannelRequestsList = open_req_channels]
    ELSE IF open_req_channels[idx] \notin DOMAIN h.HrmpOpenChannelRequests
    THEN [h EXCEPT !.panic = TRUE]
    ELSE LET channel_id == open_req_channels[idx]
             request == h.HrmpOpenChannelRequests[open_req_channels[idx]]
             Open(r) ==
                 IF is_valid_para(r, channel_id.sender)
                      /\ is_valid_para(r, channel_id.recipient)
                 THEN [r EXCEPT
                         !.HrmpChannels = MapInsert(@, channel_id,
                                                    NewChannel(channel_id, request)),
                         !.HrmpIngressChannelsIndex[channel_id.recipient] =
                             insert_sorted(@, channel_id.sender),
                         !.HrmpEgressChannelsIndex[channel_id.sender] =
                             insert_sorted(@, channel_id.recipient)]
                 ELSE r
             Settle(r) ==
                 [decrease_accepted_channel_request_count(
                      decrease_open_channel_request_count(r, channel_id.sender),
                      channel_id.recipient)
                  EXCEPT !.HrmpOpenChannelRequests = MapRemove(@, channel_id)]
         IN  open_every_request_from(Settle(Open(h)),
                                           swap_remove(open_req_channels, idx), idx - 1)

\* The loop of process_hrmp_open_channel_requests, from the end of the list.
RECURSIVE open_requests_from(_, _, _)
open_requests_from(h, open_req_channels, idx) ==
    IF idx = 0 THEN [h EXCEPT !.HrmpOpenChannelRequestsList = open_req_channels]
    ELSE IF open_req_channels[idx] \notin DOMAIN h.HrmpOpenChannelRequests
    THEN [h EXCEPT !.panic = TRUE]
    ELSE LET channel_id == open_req_channels[idx]
             request == h.HrmpOpenChannelRequests[open_req_channels[idx]]
             Open(r) ==
                 IF is_valid_para(r, channel_id.sender)
                      /\ is_valid_para(r, channel_id.recipient)
                 THEN [r EXCEPT
                         !.HrmpChannels = MapInsert(@, channel_id,
                                                    NewChannel(channel_id, request)),
                         !.HrmpIngressChannelsIndex[channel_id.recipient] =
                             insert_sorted(@, channel_id.sender),
                         !.HrmpEgressChannelsIndex[channel_id.sender] =
                             insert_sorted(@, channel_id.recipient)]
                 ELSE r
             Settle(r) ==
                 [decrease_accepted_channel_request_count(
                      decrease_open_channel_request_count(r, channel_id.sender),
                      channel_id.recipient)
                  EXCEPT !.HrmpOpenChannelRequests = MapRemove(@, channel_id)]
         IN  IF request.confirmed
             THEN open_requests_from(Settle(Open(h)),
                                swap_remove(open_req_channels, idx), idx - 1)
             ELSE open_requests_from(h, open_req_channels, idx - 1)

\* process_hrmp_open_channel_requests opening unconfirmed requests too.
process_every_open_channel_request(h) ==
    IF h.HrmpOpenChannelRequestsList = << >> THEN h
    ELSE open_every_request_from(h, h.HrmpOpenChannelRequestsList,
                                 Len(h.HrmpOpenChannelRequestsList))

process_hrmp_open_channel_requests(h) ==
    IF h.HrmpOpenChannelRequestsList = << >> THEN h
    ELSE open_requests_from(h, h.HrmpOpenChannelRequestsList,
                       Len(h.HrmpOpenChannelRequestsList))

RECURSIVE close_condemned(_, _, _)
close_condemned(h, close_reqs, i) ==
    IF i > Len(close_reqs) THEN h
    ELSE close_condemned(
             close_hrmp_channel(
                 [h EXCEPT !.HrmpCloseChannelRequests = @ \ {close_reqs[i]}],
                 close_reqs[i]),
             close_reqs, i + 1)

process_hrmp_close_channel_requests(h) ==
    close_condemned([h EXCEPT !.HrmpCloseChannelRequestsList = << >>],
                    h.HrmpCloseChannelRequestsList, 1)

initializer_on_new_session(h, outgoing_paras) ==
    process_hrmp_close_channel_requests(
        process_hrmp_open_channel_requests(
            perform_outgoing_para_cleanup(h, outgoing_paras)))

\* The loop of check_outbound_hrmp without the limits of the channel.
RECURSIVE check_outbound_unbounded(_, _, _, _, _)
check_hrmp_watermark(h, recipient, relay_chain_parent_number, new_hrmp_watermark) ==
    IF new_hrmp_watermark = relay_chain_parent_number THEN "Ok"
    ELSE IF new_hrmp_watermark > relay_chain_parent_number THEN "AheadRelayParent"
    ELSE IF h.HrmpWatermarks[recipient].some
              /\ new_hrmp_watermark < h.HrmpWatermarks[recipient].value
    THEN "AdvancementRule"
    ELSE IF h.HrmpWatermarks[recipient].some
              /\ new_hrmp_watermark = h.HrmpWatermarks[recipient].value
    THEN "Ok"
    ELSE IF \E i \in 1..Len(h.HrmpChannelDigests[recipient]) :
                h.HrmpChannelDigests[recipient][i].block_no = new_hrmp_watermark
    THEN "Ok"
    ELSE "LandsOnBlockWithNoMessages"

check_outbound_unbounded(h, sender, out_hrmp_msgs, idx, last_recipient) ==
    IF idx > Len(out_hrmp_msgs) THEN "Ok"
    ELSE IF last_recipient.some /\ out_hrmp_msgs[idx].recipient <= last_recipient.value
    THEN "NotSorted"
    ELSE IF HrmpChannelId(sender, out_hrmp_msgs[idx].recipient) \notin DOMAIN h.HrmpChannels
    THEN "NoSuchChannel"
    ELSE check_outbound_unbounded(h, sender, out_hrmp_msgs, idx + 1,
                                  Some(out_hrmp_msgs[idx].recipient))

\* The loop of check_outbound_hrmp over the messages of a candidate.
RECURSIVE check_outbound_from(_, _, _, _, _)
check_outbound_from(h, sender, out_hrmp_msgs, idx, last_recipient) ==
    IF idx > Len(out_hrmp_msgs) THEN "Ok"
    ELSE IF last_recipient.some /\ out_hrmp_msgs[idx].recipient <= last_recipient.value
    THEN "NotSorted"
    ELSE IF HrmpChannelId(sender, out_hrmp_msgs[idx].recipient) \notin DOMAIN h.HrmpChannels
    THEN "NoSuchChannel"
    ELSE LET Check(channel, msg_size) ==
                 IF msg_size > channel.max_message_size THEN "MaxMessageSizeExceeded"
                 ELSE IF channel.total_size + msg_size > channel.max_total_size
                 THEN "TotalSizeExceeded"
                 ELSE IF channel.msg_count + 1 > channel.max_capacity
                 THEN "CapacityExceeded"
                 ELSE check_outbound_from(h, sender, out_hrmp_msgs, idx + 1,
                                          Some(out_hrmp_msgs[idx].recipient))
         IN  Check(h.HrmpChannels[HrmpChannelId(sender, out_hrmp_msgs[idx].recipient)],
                   Len(out_hrmp_msgs[idx].data))

\* check_outbound_hrmp without the limits of the channel.
check_outbound_hrmp_recipients_only(h, sender, out_hrmp_msgs) ==
    IF Len(out_hrmp_msgs) > hrmp_max_message_num_per_candidate
    THEN "MoreMessagesThanPermitted"
    ELSE check_outbound_unbounded(h, sender, out_hrmp_msgs, 1, None)

check_outbound_hrmp(h, sender, out_hrmp_msgs) ==
    IF Len(out_hrmp_msgs) > hrmp_max_message_num_per_candidate
    THEN "MoreMessagesThanPermitted"
    ELSE check_outbound_from(h, sender, out_hrmp_msgs, 1, None)

\* The digest of a recipient with one more message of a sender at `now`.
push_digest(recipient_digest, now, sender) ==
    IF recipient_digest # << >> /\ recipient_digest[Len(recipient_digest)].block_no = now
    THEN [recipient_digest EXCEPT ![Len(recipient_digest)].paras_sent_msg =
                                       Append(@, sender)]
    ELSE Append(recipient_digest, [block_no |-> now, paras_sent_msg |-> <<sender>>])

RECURSIVE queue_outbound_from(_, _, _, _)
queue_outbound_from(h, sender, out_hrmp_msgs, i) ==
    IF i > Len(out_hrmp_msgs) THEN h
    ELSE IF HrmpChannelId(sender, out_hrmp_msgs[i].recipient) \notin DOMAIN h.HrmpChannels
    THEN queue_outbound_from(h, sender, out_hrmp_msgs, i + 1)
    ELSE LET Queue(channel_id, inbound) ==
                 [h EXCEPT
                    !.HrmpChannels[channel_id].msg_count = @ + 1,
                    !.HrmpChannels[channel_id].total_size = @ + Len(inbound.data),
                    !.HrmpChannelContents[channel_id] = Append(@, inbound),
                    !.HrmpChannelDigests[channel_id.recipient] =
                        push_digest(@, h.now, sender)]
         IN  queue_outbound_from(
                 Queue(HrmpChannelId(sender, out_hrmp_msgs[i].recipient),
                       [sent_at |-> h.now, data |-> out_hrmp_msgs[i].data]),
                 sender, out_hrmp_msgs, i + 1)

queue_outbound_hrmp(h, sender, out_hrmp_msgs) ==
    queue_outbound_from(h, sender, out_hrmp_msgs, 1)

\* The bytes of the messages of a channel.
RECURSIVE contents_size(_)
contents_size(contents) ==
    IF contents = << >> THEN 0
    ELSE Len(Head(contents).data) + contents_size(Tail(contents))

\* prune_hrmp of one channel: its messages sent at or before the watermark.
prune_channel(h, channel_id, new_hrmp_watermark) ==
    LET Kept(msg) == ~(msg.sent_at <= new_hrmp_watermark)
        Pruned(msg) == msg.sent_at <= new_hrmp_watermark
        Cut(contents, pruned) ==
            LET Stored == [h EXCEPT !.HrmpChannelContents[channel_id] =
                                        SelectSeq(contents, Kept)]
            IN  IF channel_id \in DOMAIN h.HrmpChannels
                THEN [Stored EXCEPT
                        !.HrmpChannels[channel_id].msg_count = @ - Len(pruned),
                        !.HrmpChannels[channel_id].total_size = @ - contents_size(pruned)]
                ELSE Stored
    IN  Cut(h.HrmpChannelContents[channel_id],
            SelectSeq(h.HrmpChannelContents[channel_id], Pruned))

\* The channels of the senders, pruned in ascending order of the senders,
\* as a BTreeSet iterates.
RECURSIVE prune_channels(_, _, _, _)
prune_channels(h, recipient, senders, new_hrmp_watermark) ==
    IF senders = {} THEN h
    ELSE LET Rest(sender) ==
                 prune_channels(
                     prune_channel(h, HrmpChannelId(sender, recipient), new_hrmp_watermark),
                     recipient, senders \ {sender}, new_hrmp_watermark)
         IN  Rest(CHOOSE p \in senders : \A q \in senders : p <= q)

prune_hrmp(h, recipient, new_hrmp_watermark) ==
    LET Old(entry) == entry.block_no <= new_hrmp_watermark
        Leftover(entry) == ~(entry.block_no <= new_hrmp_watermark)
        Senders(old) ==
            UNION {{old[i].paras_sent_msg[j] : j \in 1..Len(old[i].paras_sent_msg)} :
                     i \in 1..Len(old)}
        Pruned ==
            prune_channels(
                [h EXCEPT !.HrmpChannelDigests[recipient] = SelectSeq(@, Leftover)],
                recipient,
                Senders(SelectSeq(h.HrmpChannelDigests[recipient], Old)),
                new_hrmp_watermark)
    IN  [Pruned EXCEPT !.HrmpWatermarks[recipient] = Some(new_hrmp_watermark)]

\* The record of a call: what it was given, what it started from, the
\* in-memory task and the effects of its run, and what it returned.
Call(op, args, pre, c, result, pays_fee) ==
    [op |-> op, args |-> args, pre |-> pre, task |-> c.task,
     events |-> c.events, rewrites |-> c.rewrites, ticks |-> c.ticks,
     err |-> c.err, result |-> result, pays_fee |-> pays_fee]

InitPallet ==
    /\ MigrationProcess = Encode(DefaultTask)
    /\ SignedMigrationMaxLimits = None
    /\ balance = [a \in Accounts |->
                    [free |-> IF a = 1 THEN InitialBalance ELSE 0, held |-> 0]]
    /\ last = Call("genesis", NoArgs, Pre, Ctx(DefaultTask, top, child, AutoLimits),
                   "Ok", "Yes")
    /\ log = <<>>
    /\ block = 0
    /\ sums = [size |-> 0, top_items |-> 0, child_items |-> 0]
    /\ hrmp = HrmpGenesis

InitStore ==
    \E es \in Stores :
        /\ top = StoreTop(es)
        /\ child = StoreChild(es)
        /\ top0 = top
        /\ child0 = child

(***************************************************************************)
(* Hooks::on_initialize                                                    *)
(***************************************************************************)
\* on_initialize dropping the error of the run.
on_initialize_no_halt(c0, limits) ==
    LET Deposit(c2) ==
            IF finished(c2.task)
            THEN [c2 EXCEPT !.events = Append(@, [name |-> "AutoMigrationFinished"]),
                            !.auto = None]
            ELSE [c2 EXCEPT !.events =
                    Append(@, [name |-> "Migrated", top |-> c2.task.dyn_top_items,
                               child |-> c2.task.dyn_child_items, compute |-> "Auto"])]
    IN  Deposit(migrate_until_exhaustion(c0, limits))

\* on_initialize depositing Migrated also when the task is finished.
on_initialize_deposits_both(c0, limits) ==
    LET Migrated(c3) ==
            [c3 EXCEPT !.events =
                Append(@, [name |-> "Migrated", top |-> c3.task.dyn_top_items,
                           child |-> c3.task.dyn_child_items, compute |-> "Auto"])]
        Deposit(c2) ==
            IF finished(c2.task)
            THEN Migrated([c2 EXCEPT !.events = Append(@, [name |-> "AutoMigrationFinished"]),
                                     !.auto = None])
            ELSE Migrated(c2)
        Halt(c1) == Deposit(IF c1.err # "" THEN halt(c1, c1.err) ELSE c1)
    IN  Halt(migrate_until_exhaustion(c0, limits))

on_initialize(c0, limits) ==
    LET Deposit(c2) ==
            IF finished(c2.task)
            THEN [c2 EXCEPT !.events = Append(@, [name |-> "AutoMigrationFinished"]),
                            !.auto = None]
            ELSE [c2 EXCEPT !.events =
                    Append(@, [name |-> "Migrated", top |-> c2.task.dyn_top_items,
                               child |-> c2.task.dyn_child_items, compute |-> "Auto"])]
        Halt(c1) == Deposit(IF c1.err # "" THEN halt(c1, c1.err) ELSE c1)
    IN  Halt(migrate_until_exhaustion(c0, limits))

\* OnInitialize running with the largest limits when none is set.
OnInitialize_runs_disarmed ==
    LET Put(c) ==
            /\ top' = c.top
            /\ child' = c.child
            /\ AutoLimits' = c.auto
            /\ MigrationProcess' = Encode(c.task)
            /\ last' = Call("on_initialize", NoArgs, Pre, c, "Ok", "Yes")
            /\ UNCHANGED <<SignedMigrationMaxLimits, balance, top0, child0>>
    IN  Put(on_initialize(Ctx(Decode(MigrationProcess), top, child, AutoLimits),
                          IF AutoLimits.some THEN AutoLimits.value
                          ELSE [item |-> MaxItem, size |-> MaxSize]))

OnInitialize ==
    LET Put(c) ==
            /\ top' = c.top
            /\ child' = c.child
            /\ AutoLimits' = c.auto
            /\ MigrationProcess' = Encode(c.task)
            /\ last' = Call("on_initialize", NoArgs, Pre, c, "Ok", "Yes")
            /\ UNCHANGED <<SignedMigrationMaxLimits, balance, top0, child0>>
    IN  IF AutoLimits.some
        THEN Put(on_initialize(Ctx(Decode(MigrationProcess), top, child, AutoLimits),
                               AutoLimits.value))
        ELSE /\ last' = Call("on_initialize", NoArgs, Pre,
                             Ctx(Decode(MigrationProcess), top, child, AutoLimits),
                             "Ok", "Yes")
             /\ UNCHANGED <<top, child, MigrationProcess, AutoLimits,
                            SignedMigrationMaxLimits, balance, top0, child0>>

(***************************************************************************)
(* The currency (fungible::InspectHold, MutateHold, Balanced).             *)
(***************************************************************************)
can_hold(bal, who, amount) == bal[who].free >= amount

hold(bal, who, amount) ==
    [bal EXCEPT ![who].free = @ - amount, ![who].held = @ + amount]

burn_all_held(bal, who) == [bal EXCEPT ![who].held = 0]

\* Pallet::calculate_deposit_for, in the Balance type: with the deposits of
\* the mock and a u32 count, the saturating operations never saturate.
calculate_deposit_for(keys_count) ==
    SignedDepositBase + SignedDepositPerItem * keys_count

\* slash holding the deposit and not burning it.
slash_without_burn(bal, who, amount) ==
    IF can_hold(bal, who, amount)
    THEN [ok |-> TRUE, balance |-> hold(bal, who, amount),
          events |-> <<[name |-> "Slashed", who |-> who, amount |-> amount]>>]
    ELSE [ok |-> FALSE, balance |-> bal, events |-> <<>>]

\* Pallet::slash: the balances after it and the event it deposits; it
\* fails, changing nothing, when the deposit cannot be held.
slash(bal, who, amount) ==
    IF can_hold(bal, who, amount)
    THEN [ok |-> TRUE, balance |-> burn_all_held(hold(bal, who, amount), who),
          events |-> <<[name |-> "Slashed", who |-> who, amount |-> amount]>>]
    ELSE [ok |-> FALSE, balance |-> bal, events |-> <<>>]

\* A dispatchable that returns an error: its storage layer is rolled back.
Rejected(op, args, error) ==
    /\ last' = Call(op, args, Pre, Ctx(Decode(MigrationProcess), top, child, AutoLimits),
                    error, "Yes")
    /\ UNCHANGED <<top, child, MigrationProcess, AutoLimits,
                   SignedMigrationMaxLimits, balance, top0, child0>>

(***************************************************************************)
(* Pallet::continue_migrate                                                *)
(***************************************************************************)
\* continue_migrate_check without the witness comparison.
continue_migrate_check_no_witness(origin, limits, witness_task) ==
    LET max_limits == SignedMigrationMaxLimits
        deposit == calculate_deposit_for(limits.item)
    IN  CASE origin = Root -> "BadOrigin"
          [] ~max_limits.some -> "SignedMigrationNotAllowed"
          [] ~(limits.size <= max_limits.value.size
                 /\ limits.item <= max_limits.value.item) -> "MaxSignedLimits"
          [] ~can_hold(balance, origin, deposit) -> "NotEnoughFunds"
          [] OTHER -> ""

\* continue_migrate_check comparing the witness before the funds.
continue_migrate_check_witness_first(origin, limits, witness_task) ==
    LET max_limits == SignedMigrationMaxLimits
        deposit == calculate_deposit_for(limits.item)
    IN  CASE origin = Root -> "BadOrigin"
          [] ~max_limits.some -> "SignedMigrationNotAllowed"
          [] ~(limits.size <= max_limits.value.size
                 /\ limits.item <= max_limits.value.item) -> "MaxSignedLimits"
          [] Decode(MigrationProcess) # witness_task -> "BadWitness"
          [] ~can_hold(balance, origin, deposit) -> "NotEnoughFunds"
          [] OTHER -> ""

\* The first failing precondition of continue_migrate, or "".
continue_migrate_check(origin, limits, witness_task) ==
    LET max_limits == SignedMigrationMaxLimits
        deposit == calculate_deposit_for(limits.item)
    IN  CASE origin = Root -> "BadOrigin"
          [] ~max_limits.some -> "SignedMigrationNotAllowed"
          [] ~(limits.size <= max_limits.value.size
                 /\ limits.item <= max_limits.value.item) -> "MaxSignedLimits"
          [] ~can_hold(balance, origin, deposit) -> "NotEnoughFunds"
          [] Decode(MigrationProcess) # witness_task -> "BadWitness"
          [] OTHER -> ""

\* underestimated slashing an exact witness too.
underestimated_or_equal(real_size_upper, task) == real_size_upper <= task.dyn_size

\* "ensure that the migration witness data was correct": the caller claimed
\* fewer bytes than the run touched.
underestimated(real_size_upper, task) == real_size_upper < task.dyn_size

ContinueMigrate(origin, limits, real_size_upper, witness_task) ==
    LET args == [NoArgs EXCEPT !.who = origin, !.limits = limits,
                               !.real_size_upper = real_size_upper,
                               !.witness_task = witness_task]
        deposit == calculate_deposit_for(limits.item)
        Slash(c, slashed) ==
            IF slashed.ok
            THEN /\ top' = c.top
                 /\ child' = c.child
                 /\ AutoLimits' = c.auto
                 /\ balance' = slashed.balance
                 /\ last' = Call("continue_migrate", args, Pre,
                                 [c EXCEPT !.events = @ \o slashed.events],
                                 "Ok", "Yes")
                 /\ UNCHANGED <<MigrationProcess, SignedMigrationMaxLimits,
                                top0, child0>>
            ELSE Rejected("continue_migrate", args, "FundsUnavailable")
        Put(done) ==
            /\ top' = done.top
            /\ child' = done.child
            /\ AutoLimits' = done.auto
            /\ MigrationProcess' = Encode(done.task)
            /\ last' = Call("continue_migrate", args, Pre, done, "Ok", "No")
            /\ UNCHANGED <<SignedMigrationMaxLimits, balance, top0, child0>>
        Halt(c, migrated) == Put(IF c.err # "" THEN halt(migrated, c.err) ELSE migrated)
        Migrated(c) ==
            IF underestimated(real_size_upper, c.task)
            THEN Slash(c, slash(balance, origin, deposit))
            ELSE Halt(c, [c EXCEPT !.events =
                            Append(@, [name |-> "Migrated",
                                       top |-> c.task.dyn_top_items,
                                       child |-> c.task.dyn_child_items,
                                       compute |-> "Signed"])])
        Checked(error) ==
            IF error # "" THEN Rejected("continue_migrate", args, error)
            ELSE Migrated(migrate_until_exhaustion(
                     Ctx(Decode(MigrationProcess), top, child, AutoLimits), limits))
    IN  Checked(continue_migrate_check(origin, limits, witness_task))

(***************************************************************************)
(* Pallet::migrate_custom_top and Pallet::migrate_custom_child             *)
(***************************************************************************)
\* The for loop over the listed top keys: each one that exists is read and
\* written back, and its length added to dyn_size (kept in c.task.dyn_size).
RECURSIVE custom_top_loop(_, _)
custom_top_loop(c, keys) ==
    IF keys = <<>> THEN c
    ELSE LET key == Head(keys)
             data == get(c.top, key)
             c1 == IF data.some
                   THEN [c EXCEPT
                          !.task.dyn_size = saturating_add(@, Len(data.value)),
                          !.top = set(c.top, key, data.value),
                          !.rewrites = Append(@, TopEntry(key))]
                   ELSE c
         IN  custom_top_loop(c1, Tail(keys))

\* The slash condition of migrate_custom_child used for top keys.
custom_top_mismatch(dyn_size, witness_size) == dyn_size # witness_size

\* migrate_custom_top: the caller is slashed when the bytes read exceed the
\* witness.
custom_top_slashed(dyn_size, witness_size) == dyn_size > witness_size

\* migrate_custom_top adding what it migrated to the persisted task.
MigrateCustomTop_puts_task(origin, keys, witness_size) ==
    LET args == [NoArgs EXCEPT !.who = origin, !.keys = keys,
                               !.real_size_upper = witness_size]
        deposit == calculate_deposit_for(Len(keys))
        Slash(c, slashed) ==
            IF slashed.ok
            THEN /\ top' = c.top
                 /\ balance' = slashed.balance
                 /\ last' = Call("migrate_custom_top", args, Pre,
                                 [c EXCEPT !.events = slashed.events], "Ok", "Yes")
                 /\ UNCHANGED <<child, MigrationProcess, AutoLimits,
                                SignedMigrationMaxLimits, top0, child0>>
            ELSE Rejected("migrate_custom_top", args, "FundsUnavailable")
        Migrated(c) ==
            IF custom_top_slashed(c.task.dyn_size, witness_size)
            THEN Slash(c, slash(balance, origin, deposit))
            ELSE /\ top' = c.top
                 /\ last' = Call("migrate_custom_top", args, Pre,
                                 [c EXCEPT !.events =
                                    <<[name |-> "Migrated", top |-> Len(keys),
                                       child |-> 0, compute |-> "Signed"]>>],
                                 "Ok", "Yes")
                 /\ MigrationProcess' =
                        [MigrationProcess EXCEPT
                           !.size = saturating_add(@, c.task.dyn_size),
                           !.top_items = saturating_add(@, Len(keys))]
                 /\ UNCHANGED <<child, AutoLimits,
                                SignedMigrationMaxLimits, balance, top0, child0>>
    IN  IF origin = Root THEN Rejected("migrate_custom_top", args, "BadOrigin")
        ELSE IF ~can_hold(balance, origin, deposit)
        THEN Rejected("migrate_custom_top", args, "NotEnoughFunds")
        ELSE Migrated(custom_top_loop(Ctx(DefaultTask, top, child, AutoLimits), keys))

MigrateCustomTop(origin, keys, witness_size) ==
    LET args == [NoArgs EXCEPT !.who = origin, !.keys = keys,
                               !.real_size_upper = witness_size]
        deposit == calculate_deposit_for(Len(keys))
        Slash(c, slashed) ==
            IF slashed.ok
            THEN /\ top' = c.top
                 /\ balance' = slashed.balance
                 /\ last' = Call("migrate_custom_top", args, Pre,
                                 [c EXCEPT !.events = slashed.events], "Ok", "Yes")
                 /\ UNCHANGED <<child, MigrationProcess, AutoLimits,
                                SignedMigrationMaxLimits, top0, child0>>
            ELSE Rejected("migrate_custom_top", args, "FundsUnavailable")
        Migrated(c) ==
            IF custom_top_slashed(c.task.dyn_size, witness_size)
            THEN Slash(c, slash(balance, origin, deposit))
            ELSE /\ top' = c.top
                 /\ last' = Call("migrate_custom_top", args, Pre,
                                 [c EXCEPT !.events =
                                    <<[name |-> "Migrated", top |-> Len(keys),
                                       child |-> 0, compute |-> "Signed"]>>],
                                 "Ok", "Yes")
                 /\ UNCHANGED <<child, MigrationProcess, AutoLimits,
                                SignedMigrationMaxLimits, balance, top0, child0>>
    IN  IF origin = Root THEN Rejected("migrate_custom_top", args, "BadOrigin")
        ELSE IF ~can_hold(balance, origin, deposit)
        THEN Rejected("migrate_custom_top", args, "NotEnoughFunds")
        ELSE Migrated(custom_top_loop(Ctx(DefaultTask, top, child, AutoLimits), keys))

\* The for loop over the listed child keys of one child root.
RECURSIVE custom_child_loop(_, _, _)
custom_child_loop(c, transformed_child_key, child_keys) ==
    IF child_keys = <<>> THEN c
    ELSE LET child_key == Head(child_keys)
             data == get(ChildOf(c.child, transformed_child_key), child_key)
             c1 == IF data.some
                   THEN [c EXCEPT
                          !.task.dyn_size = saturating_add(@, Len(data.value)),
                          !.child = child_set(c.child, transformed_child_key,
                                              child_key, data.value),
                          !.rewrites =
                              Append(@, ChildEntry(transformed_child_key, child_key))]
                   ELSE c
         IN  custom_child_loop(c1, transformed_child_key, Tail(child_keys))

\* The slash condition of migrate_custom_top used for child keys.
custom_child_underestimated(dyn_size, total_size) == dyn_size > total_size

\* migrate_custom_child: the caller is slashed when the bytes read are not
\* exactly the witness.
custom_child_slashed(dyn_size, total_size) == dyn_size # total_size

MigrateCustomChild(origin, root, child_keys, total_size) ==
    LET args == [NoArgs EXCEPT !.who = origin, !.root = root, !.keys = child_keys,
                               !.real_size_upper = total_size]
        deposit == calculate_deposit_for(Len(child_keys))
        Slash(c, slashed) ==
            IF slashed.ok
            THEN /\ child' = c.child
                 /\ balance' = slashed.balance
                 /\ last' = Call("migrate_custom_child", args, Pre,
                                 [c EXCEPT !.events = slashed.events], "Ok", "Yes")
                 /\ UNCHANGED <<top, MigrationProcess, AutoLimits,
                                SignedMigrationMaxLimits, top0, child0>>
            ELSE Rejected("migrate_custom_child", args, "FundsUnavailable")
        Migrated(c) ==
            IF custom_child_slashed(c.task.dyn_size, total_size)
            THEN Slash(c, slash(balance, origin, deposit))
            ELSE /\ child' = c.child
                 /\ last' = Call("migrate_custom_child", args, Pre,
                                 [c EXCEPT !.events =
                                    <<[name |-> "Migrated", top |-> 0,
                                       child |-> Len(child_keys),
                                       compute |-> "Signed"]>>],
                                 "Ok", "Yes")
                 /\ UNCHANGED <<top, MigrationProcess, AutoLimits,
                                SignedMigrationMaxLimits, balance, top0, child0>>
        Transformed(transformed_child_key) ==
            IF ~transformed_child_key.some
            THEN Rejected("migrate_custom_child", args, "bad child key")
            ELSE Migrated(custom_child_loop(Ctx(DefaultTask, top, child, AutoLimits),
                                            transformed_child_key.value, child_keys))
    IN  IF origin = Root THEN Rejected("migrate_custom_child", args, "BadOrigin")
        ELSE IF ~can_hold(balance, origin, deposit)
        THEN Rejected("migrate_custom_child", args, "NotEnoughFunds")
        ELSE Transformed(transform_child_key(root))

(***************************************************************************)
(* The administrative calls.                                               *)
(***************************************************************************)
\* Pallet::control_auto_migration
ControlAutoMigration(origin, maybe_config) ==
    LET args == [NoArgs EXCEPT !.who = origin, !.maybe_config = maybe_config]
    IN  IF origin # Root THEN Rejected("control_auto_migration", args, "BadOrigin")
        ELSE /\ AutoLimits' = maybe_config
             /\ last' = Call("control_auto_migration", args, Pre,
                             Ctx(Decode(MigrationProcess), top, child, AutoLimits),
                             "Ok", "Yes")
             /\ UNCHANGED <<top, child, MigrationProcess,
                            SignedMigrationMaxLimits, balance, top0, child0>>

\* set_signed_max_limits keeping limits that are already set.
SetSignedMaxLimits_keeps_first(origin, limits) ==
    LET args == [NoArgs EXCEPT !.who = origin, !.limits = limits]
    IN  IF origin # Root THEN Rejected("set_signed_max_limits", args, "BadOrigin")
        ELSE /\ SignedMigrationMaxLimits' =
                    (IF SignedMigrationMaxLimits.some THEN SignedMigrationMaxLimits
                     ELSE Some(limits))
             /\ last' = Call("set_signed_max_limits", args, Pre,
                             Ctx(Decode(MigrationProcess), top, child, AutoLimits),
                             "Ok", "Yes")
             /\ UNCHANGED <<top, child, MigrationProcess, AutoLimits,
                            balance, top0, child0>>

\* Pallet::set_signed_max_limits
SetSignedMaxLimits(origin, limits) ==
    LET args == [NoArgs EXCEPT !.who = origin, !.limits = limits]
    IN  IF origin # Root THEN Rejected("set_signed_max_limits", args, "BadOrigin")
        ELSE /\ SignedMigrationMaxLimits' = Some(limits)
             /\ last' = Call("set_signed_max_limits", args, Pre,
                             Ctx(Decode(MigrationProcess), top, child, AutoLimits),
                             "Ok", "Yes")
             /\ UNCHANGED <<top, child, MigrationProcess, AutoLimits,
                            balance, top0, child0>>

\* force_set_progress starting the task afresh.
ForceSetProgress_resets_counters(origin, progress_top, progress_child) ==
    LET args == [NoArgs EXCEPT !.who = origin,
                               !.progress_top = progress_top,
                               !.progress_child = progress_child]
        Put(task) ==
            /\ MigrationProcess' = Encode(task)
            /\ last' = Call("force_set_progress", args, Pre,
                            Ctx(task, top, child, AutoLimits), "Ok", "Yes")
            /\ UNCHANGED <<top, child, AutoLimits, SignedMigrationMaxLimits,
                           balance, top0, child0>>
    IN  IF origin # Root THEN Rejected("force_set_progress", args, "BadOrigin")
        ELSE Put([DefaultTask EXCEPT
                    !.progress_top = progress_top,
                    !.progress_child = progress_child])

\* Pallet::force_set_progress: MigrationProcess::mutate sets the two cursors
\* and leaves the counters.
ForceSetProgress(origin, progress_top, progress_child) ==
    LET args == [NoArgs EXCEPT !.who = origin,
                               !.progress_top = progress_top,
                               !.progress_child = progress_child]
        Put(task) ==
            /\ MigrationProcess' = Encode(task)
            /\ last' = Call("force_set_progress", args, Pre,
                            Ctx(task, top, child, AutoLimits), "Ok", "Yes")
            /\ UNCHANGED <<top, child, AutoLimits, SignedMigrationMaxLimits,
                           balance, top0, child0>>
    IN  IF origin # Root THEN Rejected("force_set_progress", args, "BadOrigin")
        ELSE Put([Decode(MigrationProcess) EXCEPT
                    !.progress_top = progress_top,
                    !.progress_child = progress_child])

(***************************************************************************)
(* What the runs of migrate_until_exhaustion counted, added up over all    *)
(* calls of the hook and of continue_migrate, whatever became of the task. *)
(***************************************************************************)
Tally(s, call) ==
    IF call.op \in {"on_initialize", "continue_migrate"}
    THEN [size |-> s.size + call.task.dyn_size,
          top_items |-> s.top_items + call.task.dyn_top_items,
          child_items |-> s.child_items + call.task.dyn_child_items]
    ELSE s

(***************************************************************************)
(* The automatic path alone: armed (or not) at genesis, then one hook per  *)
(* block and no extrinsic.                                                 *)
(***************************************************************************)
InitAuto ==
    /\ InitStore
    /\ AutoLimits \in {None} \cup {Some(l) : l \in Limits}
    /\ InitPallet

Block ==
    /\ OnInitialize
    /\ log' = log \o last'.rewrites
    /\ block' = 1 - block
    /\ sums' = Tally(sums, last')
    /\ UNCHANGED hrmp

NextAuto == Block

SpecAuto == InitAuto /\ [][NextAuto]_vars

(***************************************************************************)
(* The pallet: genesis, then any extrinsic or block hook.                  *)
(***************************************************************************)
Init ==
    /\ \E es \in CallStores :
          /\ top = StoreTop(es)
          /\ child = StoreChild(es)
          /\ top0 = top
          /\ child0 = child
    /\ AutoLimits = None
    /\ InitPallet

\* The witness a caller passes: the task as persisted now, or another one.
BadWitnessTask == [DefaultTask EXCEPT !.progress_top = LastKey(<<1>>)]

Witnesses == {Decode(MigrationProcess), BadWitnessTask}

\* The limits the administrator configures.
AdminLimits == {[item |-> MaxItem, size |-> MaxSize], [item |-> 1, size |-> 1]}

AutoConfigs == {None, Some([item |-> 1, size |-> MaxSize])}

\* The key lists of the custom migrations.
CustomTopKeys == {<<107>>}

CustomChildKeys == {<<1>>}

KeyLists(ks) == {<<>>} \cup {<<k>> : k \in ks}

CustomRoots == {DEFAULT_CHILD_STORAGE_KEY_PREFIX \o <<97>>, <<107>>}

\* The cursor a signed account tries to force.
SignedForceTops == {Complete}

Next ==
    \/ OnInitialize /\ UNCHANGED <<log, block, hrmp>> /\ sums' = Tally(sums, last')
    \/ \E limits \in Limits, real_size_upper \in SizeWitnesses, witness_task \in Witnesses :
          ContinueMigrate(1, limits, real_size_upper, witness_task) /\ UNCHANGED <<log, block, hrmp>> /\ sums' = Tally(sums, last')
    \/ \E keys \in KeyLists(CustomTopKeys), witness_size \in SizeWitnesses :
          MigrateCustomTop(1, keys, witness_size) /\ UNCHANGED <<log, block, hrmp>> /\ sums' = Tally(sums, last')
    \/ \E root \in CustomRoots, child_keys \in KeyLists(CustomChildKeys),
          total_size \in SizeWitnesses :
          MigrateCustomChild(1, root, child_keys, total_size) /\ UNCHANGED <<log, block, hrmp>> /\ sums' = Tally(sums, last')
    \/ \E origin \in {Root, 1}, maybe_config \in AutoConfigs :
          ControlAutoMigration(origin, maybe_config) /\ UNCHANGED <<log, block, hrmp>> /\ sums' = Tally(sums, last')
    \/ \E origin \in {Root, 1}, limits \in AdminLimits :
          SetSignedMaxLimits(origin, limits) /\ UNCHANGED <<log, block, hrmp>> /\ sums' = Tally(sums, last')
    \/ \E progress_top \in SignedForceTops :
          ForceSetProgress(1, progress_top, ToStart) /\ UNCHANGED <<log, block, hrmp>> /\ sums' = Tally(sums, last')

Spec == Init /\ [][Next]_vars

(***************************************************************************)
(* The administrator and the hook: force_set_progress can move the cursor  *)
(* anywhere, also back to the start, so the hook can run over the same     *)
(* keys again and again. The sums of the runs are not kept here.           *)
(***************************************************************************)
ForceStores == {es \in CallStores : Cardinality(es) <= 1}

InitForce ==
    /\ \E es \in ForceStores :
          /\ top = StoreTop(es)
          /\ child = StoreChild(es)
          /\ top0 = top
          /\ child0 = child
    /\ AutoLimits = None
    /\ InitPallet

\* The cursors the administrator sets.
ForceTops == {ToStart, LastKey(<<107>>), Complete}

ForceChildren == {ToStart, LastKey(<<>>), Complete}

ForceConfigs == {Some([item |-> MaxItem, size |-> MaxSize])}

NextForce ==
    \/ OnInitialize /\ UNCHANGED <<log, block, sums, hrmp>>
    \/ \E origin \in {Root, 1}, progress_top \in ForceTops,
          progress_child \in ForceChildren :
          ForceSetProgress(origin, progress_top, progress_child)
              /\ UNCHANGED <<log, block, sums, hrmp>>
    \/ \E maybe_config \in ForceConfigs :
          ControlAutoMigration(Root, maybe_config) /\ UNCHANGED <<log, block, sums, hrmp>>

SpecForce == InitForce /\ [][NextForce]_vars

(***************************************************************************)
(* migrate_tick alone: any store, any pair of cursors, then one tick per   *)
(* step, the task written back after each.                                 *)
(***************************************************************************)
TickRoots == {DEFAULT_CHILD_STORAGE_KEY_PREFIX \o r : r \in ChildRoots}

TickTops == {ToStart, Complete, LastKey(<<>>), LastKey(<<107>>)}
                \cup {LastKey(k) : k \in TickRoots}

TickChildren == {ToStart, Complete, LastKey(<<>>), LastKey(<<1>>)}

InitTick ==
    /\ InitStore
    /\ AutoLimits = Some([item |-> MaxItem, size |-> MaxSize])
    /\ \E progress_top \in TickTops, progress_child \in TickChildren :
          MigrationProcess = Encode([DefaultTask EXCEPT
                                       !.progress_top = progress_top,
                                       !.progress_child = progress_child])
    /\ SignedMigrationMaxLimits = None
    /\ balance = [a \in Accounts |->
                    [free |-> IF a = 1 THEN InitialBalance ELSE 0, held |-> 0]]
    /\ last = Call("genesis", NoArgs, Pre,
                   Ctx(Decode(MigrationProcess), top, child, AutoLimits), "Ok", "Yes")
    /\ log = <<>>
    /\ block = 0
    /\ sums = [size |-> 0, top_items |-> 0, child_items |-> 0]
    /\ hrmp = HrmpGenesis

Tick ==
    LET Put(c) ==
            /\ top' = c.top
            /\ child' = c.child
            /\ AutoLimits' = c.auto
            /\ MigrationProcess' = Encode(c.task)
            /\ last' = Call("migrate_tick", NoArgs, Pre, c,
                            IF c.err = "" THEN "Ok" ELSE c.err, "Yes")
            /\ UNCHANGED <<SignedMigrationMaxLimits, balance, top0, child0>>
    IN  Put(migrate_tick(Ctx(Decode(MigrationProcess), top, child, AutoLimits)))

NextTick == Tick /\ log' = log \o last'.rewrites /\ UNCHANGED <<block, sums, hrmp>>

SpecTick == InitTick /\ [][NextTick]_vars

\* The ticks of a migration that starts from the default task and is never
\* overridden, one at a time.
SpecWalk == InitAuto /\ [][NextTick]_vars

(***************************************************************************)
(* migrate_until_exhaustion alone: a caller runs it with limits of its     *)
(* choice, on the task it loads from storage or, once more, on the task it *)
(* still holds in memory from that call, and writes the task back.         *)
(***************************************************************************)
MigrateUntilExhaustion ==
    \E limits \in [item : {0, 1, MaxItem + 1}, size : {1, MaxSize}], reload \in BOOLEAN :
        LET Put(task, c) ==
                /\ top' = c.top
                /\ child' = c.child
                /\ AutoLimits' = c.auto
                /\ MigrationProcess' = Encode(c.task)
                /\ last' = Call("migrate_until_exhaustion",
                                [limits |-> limits, reload |-> reload, task |-> task],
                                Pre, c, IF c.err = "" THEN "Ok" ELSE c.err, "Yes")
                /\ UNCHANGED <<SignedMigrationMaxLimits, balance, top0, child0,
                               log, block, sums, hrmp>>
            Run(task) ==
                Put(task, migrate_until_exhaustion(Ctx(task, top, child, AutoLimits),
                                                   limits))
        IN  /\ ~finished(Decode(MigrationProcess))
            /\ reload \/ (last.op = "migrate_until_exhaustion" /\ last.args.reload)
            /\ Run(IF reload THEN Decode(MigrationProcess) ELSE last.task)

SpecExhaust == Init /\ [][MigrateUntilExhaustion]_vars

(***************************************************************************)
(* The automatic and the signed path interleaved on a store nothing else   *)
(* writes: blocks run the hook, armed or not, and an account submits       *)
(* continue_migrate with the persisted task, the genesis task or a task    *)
(* that never was as its witness. log keeps each entry rewritten, once.    *)
(***************************************************************************)
NextSigned ==
    LET Logged(rewrites) ==
            /\ log' = log \o SelectSeq(rewrites,
                                        LAMBDA e : \A i \in 1..Len(log) : log[i] # e)
            /\ UNCHANGED <<block, sums, hrmp>>
    IN  \/ OnInitialize /\ Logged(last'.rewrites)
        \/ \E limits \in [item : {1, MaxItem}, size : {MaxSize + 1}],
              real_size_upper \in {0} \cup SizeWitnesses,
              witness_task \in Witnesses \cup {DefaultTask} :
              ContinueMigrate(1, limits, real_size_upper, witness_task)
                  /\ Logged(last'.rewrites)
        \/ SetSignedMaxLimits(Root, [item |-> MaxItem, size |-> MaxSize + 1])
              /\ Logged(<< >>)
        \/ \E maybe_config \in AutoConfigs :
              ControlAutoMigration(Root, maybe_config) /\ Logged(<< >>)

SpecSigned == Init /\ [][NextSigned]_vars

\* A block is produced.
NewBlock == block' = 1 - block

\* One hook per block, and blocks keep being produced.
LiveAuto == SpecAuto /\ WF_block(NewBlock)

(***************************************************************************)
(* HRMP: the dispatchables, the session change and the enactment of a      *)
(* candidate, each one action. A dispatchable that fails leaves the        *)
(* storage as it was.                                                      *)
(***************************************************************************)
\* A step of the pallet: the storage it leaves and the record of the call.
HrmpStep(op, args, err, h) ==
    /\ hrmp' = h
    /\ last' = [op |-> op, args |-> args, pre |-> hrmp, err |-> err]
    /\ UNCHANGED <<top, child, MigrationProcess, AutoLimits, SignedMigrationMaxLimits,
                   balance, top0, child0, log, block, sums>>

Dispatch(op, args, r) == HrmpStep(op, args, r.err, IF r.err = "" THEN r.h ELSE hrmp)

HrmpInitOpenChannel(origin, recipient, proposed_max_capacity, proposed_max_message_size) ==
    Dispatch("hrmp_init_open_channel",
             [origin |-> origin, recipient |-> recipient,
              proposed_max_capacity |-> proposed_max_capacity,
              proposed_max_message_size |-> proposed_max_message_size],
             init_open_channel(hrmp, origin, recipient, proposed_max_capacity,
                               proposed_max_message_size))

HrmpAcceptOpenChannel(origin, sender) ==
    Dispatch("hrmp_accept_open_channel", [origin |-> origin, sender |-> sender],
             accept_open_channel(hrmp, origin, sender))

HrmpCloseChannel(origin, channel_id) ==
    Dispatch("hrmp_close_channel", [origin |-> origin, channel_id |-> channel_id],
             close_channel(hrmp, origin, channel_id))

hrmp_cancel_open_request(h, origin, channel_id, open_requests) ==
    IF ~(Len(h.HrmpOpenChannelRequestsList) <= open_requests)
    THEN HrmpResult("WrongWitness", h)
    ELSE cancel_open_request(h, origin, channel_id)

HrmpCancelOpenRequest(origin, channel_id, open_requests) ==
    Dispatch("hrmp_cancel_open_request",
             [origin |-> origin, channel_id |-> channel_id,
              open_requests |-> open_requests],
             hrmp_cancel_open_request(hrmp, origin, channel_id, open_requests))

ForceProcessHrmpOpen(origin, channels) ==
    Dispatch("force_process_hrmp_open", [origin |-> origin, channels |-> channels],
             IF origin # Root THEN HrmpResult("BadOrigin", hrmp)
             ELSE IF ~(Len(hrmp.HrmpOpenChannelRequestsList) <= channels)
             THEN HrmpResult("WrongWitness", hrmp)
             ELSE HrmpResult("", process_hrmp_open_channel_requests(hrmp)))

ForceOpenHrmpChannel(origin, sender, recipient, max_capacity, max_message_size) ==
    LET channel_id == HrmpChannelId(sender, recipient)
        Accept(r) == IF r.err # "" THEN r ELSE accept_open_channel(r.h, recipient, sender)
        InitThenAccept(r) ==
            IF r.err # "" THEN r
            ELSE Accept(init_open_channel(r.h, sender, recipient, max_capacity,
                                          max_message_size))
    IN  Dispatch("force_open_hrmp_channel",
                 [origin |-> origin, sender |-> sender, recipient |-> recipient,
                  max_capacity |-> max_capacity, max_message_size |-> max_message_size],
                 IF origin # Root THEN HrmpResult("BadOrigin", hrmp)
                 ELSE IF channel_id \in DOMAIN hrmp.HrmpOpenChannelRequests
                 THEN InitThenAccept(cancel_open_request(hrmp, sender, channel_id))
                 ELSE InitThenAccept(HrmpResult("", hrmp)))

\* A session begins with a block: the paras that leave and join are settled,
\* then the pallet is told of the paras that left.
NewSession(outgoing_paras, incoming) ==
    LET Left == {outgoing_paras[i] : i \in 1..Len(outgoing_paras)}
    IN  /\ hrmp.now < MaxBlock
        /\ Left \subseteq hrmp.paras
        /\ incoming \cap hrmp.paras = {}
        /\ HrmpStep("initializer_on_new_session",
                    [outgoing_paras |-> outgoing_paras, incoming |-> incoming], "",
                    initializer_on_new_session(
                        [hrmp EXCEPT !.now = @ + 1,
                                     !.paras = (@ \ Left) \cup incoming],
                        outgoing_paras))

\* A block without a session change.
NextBlock ==
    /\ hrmp.now < MaxBlock
    /\ HrmpStep("block", NoArgs, "", [hrmp EXCEPT !.now = @ + 1])

\* A candidate of `sender` with these messages: checked, and enacted when
\* the check accepts it.
QueueOutboundHrmp(sender, out_hrmp_msgs) ==
    LET Enact(result) ==
            HrmpStep("queue_outbound_hrmp",
                     [sender |-> sender, out_hrmp_msgs |-> out_hrmp_msgs],
                     IF result = "Ok" THEN "" ELSE result,
                     IF result = "Ok"
                     THEN queue_outbound_hrmp(hrmp, sender, out_hrmp_msgs)
                     ELSE hrmp)
    IN  Enact(check_outbound_hrmp(hrmp, sender, out_hrmp_msgs))

\* A candidate of `recipient` moves its watermark.
PruneHrmp(recipient, new_hrmp_watermark) ==
    HrmpStep("prune_hrmp",
             [recipient |-> recipient, new_hrmp_watermark |-> new_hrmp_watermark], "",
             prune_hrmp(hrmp, recipient, new_hrmp_watermark))

\* What the paras propose, send and pass as witnesses.
Proposals == {<<2, 2>>, <<1, 1>>, <<0, 1>>, <<3, 1>>, <<1, 0>>, <<1, 3>>}

Message(recipient, len) == [recipient |-> recipient, data |-> [i \in 1..len |-> 0]]

Candidates ==
    {<<Message(ParaB, len)>> : len \in 1..3}
        \cup {<<Message(ParaB, 1), Message(ParaB, 1)>>,
              <<Message(ParaB, 1), Message(ParaB, 1), Message(ParaB, 1)>>,
              <<Message(ParaA, 1)>>}

InitHrmp ==
    /\ top = StoreTop({})
    /\ child = StoreChild({})
    /\ top0 = top
    /\ child0 = child
    /\ AutoLimits = None
    /\ InitPallet

NextHrmp ==
    \/ \E origin \in {ParaA, ParaB}, recipient \in {ParaA, ParaB}, proposal \in Proposals :
          HrmpInitOpenChannel(origin, recipient, proposal[1], proposal[2])
    \/ \E channel_id \in [sender : {ParaA, ParaB}, recipient : {ParaA, ParaB}] :
          /\ channel_id \in ChannelIds
          /\ HrmpAcceptOpenChannel(channel_id.recipient, channel_id.sender)
    \/ \E origin \in {ParaA, ParaB, Outsider},
          channel_id \in [sender : {ParaA, ParaB}, recipient : {ParaA, ParaB}],
          open_requests \in {0, 2} :
          /\ channel_id \in ChannelIds
          /\ HrmpCancelOpenRequest(origin, channel_id, open_requests)
    \/ \E origin \in {ParaA, ParaB, Outsider},
          channel_id \in [sender : {ParaA, ParaB}, recipient : {ParaA, ParaB}] :
          /\ channel_id \in ChannelIds
          /\ HrmpCloseChannel(origin, channel_id)
    \/ \E origin \in {Root, 1}, channels \in {0, 2} :
          ForceProcessHrmpOpen(origin, channels)
    \/ \E origin \in {Root, 1} :
          ForceOpenHrmpChannel(origin, ParaB, ParaA, 1, 1)
    \/ \E outgoing_paras \in {<< >>, <<ParaB>>}, incoming \in {{}, {ParaB}} :
          NewSession(outgoing_paras, incoming)

SpecHrmp == InitHrmp /\ [][NextHrmp]_vars

(***************************************************************************)
(* HRMP, the messages: one channel from ParaA to ParaB is opened and       *)
(* closed, ParaA sends over it and ParaB moves its watermark.              *)
(***************************************************************************)
\* Channels among three paras: opened by force and at the session change,
\* filled, closed on request and by offboarding.
NextIndex ==
    \/ \E channel_id \in ChannelIds :
          ForceOpenHrmpChannel(Root, channel_id.sender, channel_id.recipient, 1, 1)
    \/ \E channel_id \in ChannelIds : HrmpCloseChannel(channel_id.sender, channel_id)
    \/ \E outgoing_paras \in {<< >>, <<ParaA>>}, incoming \in {{}, {ParaA}} :
          NewSession(outgoing_paras, incoming)
    \/ \E channel_id \in ChannelIds :
          QueueOutboundHrmp(channel_id.sender, <<Message(channel_id.recipient, 1)>>)

SpecIndex == InitHrmp /\ [][NextIndex]_vars

NextQueue ==
    \/ \E proposal \in {<<2, 2>>, <<1, 1>>} :
          HrmpInitOpenChannel(ParaA, ParaB, proposal[1], proposal[2])
    \/ HrmpAcceptOpenChannel(ParaB, ParaA)
    \/ HrmpCloseChannel(ParaA, HrmpChannelId(ParaA, ParaB))
    \/ \E outgoing_paras \in {<< >>, <<ParaB>>}, incoming \in {{}, {ParaB}} :
          NewSession(outgoing_paras, incoming)
    \/ NextBlock
    \/ \E out_hrmp_msgs \in Candidates : QueueOutboundHrmp(ParaA, out_hrmp_msgs)
    \/ \E new_hrmp_watermark \in 1..MaxBlock : PruneHrmp(ParaB, new_hrmp_watermark)
    \/ \E relay_chain_parent_number \in 1..MaxBlock, new_hrmp_watermark \in 0..MaxBlock :
          LET Checked(result) ==
                  HrmpStep("check_hrmp_watermark",
                           [recipient |-> ParaB,
                            relay_chain_parent_number |-> relay_chain_parent_number,
                            new_hrmp_watermark |-> new_hrmp_watermark],
                           IF result = "Ok" THEN "" ELSE result, hrmp)
          IN  /\ relay_chain_parent_number <= hrmp.now
              /\ hrmp.HrmpWatermarks[ParaB].some =>
                    hrmp.HrmpWatermarks[ParaB].value <= relay_chain_parent_number
              /\ Checked(check_hrmp_watermark(hrmp, ParaB, relay_chain_parent_number,
                                              new_hrmp_watermark))

SpecQueue == InitHrmp /\ [][NextQueue]_vars

(***************************************************************************)
(* What the properties below read off the record of the last call.         *)
(***************************************************************************)
\* The task the call loaded from storage.
PreTask == Decode(last.pre.MigrationProcess)

\* Every key of the store at genesis fits in MaxKeyLen bytes.
KeysFit ==
    /\ \A k \in DOMAIN top0 : Len(k) <= MaxKeyLen
    /\ \A r \in DOMAIN child0 : \A k \in DOMAIN child0[r] : Len(k) <= MaxKeyLen

\* The store the migration has to cover, entry by entry.
AllEntries ==
    {TopEntry(k) : k \in DOMAIN top0}
        \cup UNION {{ChildEntry(r, k) : k \in DOMAIN child0[r]} : r \in DOMAIN child0}

\* The last call was a continue_migrate whose four preconditions held in the
\* state it started from.
ContinuePassed ==
    /\ last.op = "continue_migrate"
    /\ last.args.who \in Accounts
    /\ last.pre.SignedMigrationMaxLimits.some
    /\ last.args.limits.size <= last.pre.SignedMigrationMaxLimits.value.size
    /\ last.args.limits.item <= last.pre.SignedMigrationMaxLimits.value.item
    /\ last.pre.balance[last.args.who].free
          >= SignedDepositBase + SignedDepositPerItem * last.args.limits.item
    /\ last.args.witness_task = PreTask

\* The last call ran migrate_until_exhaustion on the task loaded from storage.
Ran ==
    \/ last.op = "on_initialize" /\ last.pre.AutoLimits.some
    \/ ContinuePassed

\* The limits of that run.
RunLimits ==
    IF last.op = "on_initialize" THEN last.pre.AutoLimits.value ELSE last.args.limits

\* The persisted pallet state is the one the call started from, and the call
\* wrote no key and deposited no event.
NothingChanged ==
    /\ MigrationProcess = last.pre.MigrationProcess
    /\ AutoLimits = last.pre.AutoLimits
    /\ SignedMigrationMaxLimits = last.pre.SignedMigrationMaxLimits
    /\ balance = last.pre.balance
    /\ last.rewrites = <<>>
    /\ last.events = <<>>

EventsNamed(name) == {i \in 1..Len(last.events) : last.events[i].name = name}

FinishedByItemOne ==
    /\ last.op = "on_initialize"
    /\ last.pre.AutoLimits.some
    /\ last.pre.AutoLimits.value.item = 1
    /\ last.pre.AutoLimits.value.size > 0
    /\ KeysFit
    /\ finished(Decode(MigrationProcess))

\* The position in the log of the last top key rewritten before position i.
RootBefore(i) ==
    LET tops == {j \in 1..(i - 1) : log[j].ns = "top"}
    IN  IF tops = {} THEN 0 ELSE CHOOSE j \in tops : \A o \in tops : o <= j

(***************************************************************************)
(* C1. Total coverage: armed with item = 1 and a non-zero size on a store  *)
(* whose keys all fit, when the hook has driven the task to finished() it  *)
(* has rewritten every top key exactly once, in ascending order, and every *)
(* key of every child namespace exactly once, in ascending order, right    *)
(* after the top key that is the root of that namespace; the empty key is  *)
(* included.                                                               *)
(***************************************************************************)
C1_TotalCoverage ==
    FinishedByItemOne =>
        /\ Len(log) = Cardinality(AllEntries)
        /\ \A e \in AllEntries : Cardinality({i \in 1..Len(log) : log[i] = e}) = 1
        /\ \A i \in 1..Len(log), j \in 1..Len(log) :
              (i < j /\ log[i].ns = "top" /\ log[j].ns = "top")
                  => LexLess(log[i].key, log[j].key)
        /\ \A i \in 1..Len(log) :
              log[i].ns = "child" =>
                  /\ RootBefore(i) # 0
                  /\ log[RootBefore(i)].key
                        = DEFAULT_CHILD_STORAGE_KEY_PREFIX \o log[i].root
                  /\ \A j \in (RootBefore(i) + 1)..(i - 1) :
                        LexLess(log[j].key, log[i].key)

C1_Witness ==
    /\ FinishedByItemOne
    /\ Len(log) >= 4
    /\ TopEntry(<<>>) \in AllEntries
    /\ \E r \in DOMAIN child0 : {<<>>, <<1>>} \subseteq DOMAIN child0[r]

(***************************************************************************)
(* C2. Value preservation: in every reachable state the key-to-value map   *)
(* of the top namespace and of every child namespace is the one of         *)
(* genesis: no call changes a value, creates a key or deletes one.         *)
(***************************************************************************)
C2_ValuePreservation ==
    /\ top = top0
    /\ child = child0

C2_Witness ==
    /\ last.op = "continue_migrate"
    /\ \E i \in 1..Len(last.rewrites) :
          /\ last.rewrites[i].ns = "child"
          /\ Len(child[last.rewrites[i].root][last.rewrites[i].key]) > 0
    /\ MigrationProcess.top_items >= 2

ArmedPositive ==
    /\ AutoLimits.some
    /\ AutoLimits.value.item > 0
    /\ AutoLimits.value.size > 0
    /\ KeysFit

AutoFinished ==
    /\ finished(Decode(MigrationProcess))
    /\ AutoLimits = None
    /\ EventsNamed("AutoMigrationFinished") # {}

ArmedBlockTicks ==
    (/\ last.op = "on_initialize"
     /\ last.pre.AutoLimits.some
     /\ last.pre.AutoLimits.value.item > 0
     /\ last.pre.AutoLimits.value.size > 0
     /\ ~finished(PreTask)) => last.ticks >= 1

(***************************************************************************)
(* C3. Liveness of the automatic migration: armed with item > 0 and        *)
(* size > 0 on a store whose keys all fit, every hook of an unfinished     *)
(* task makes at least one tick, and the hook eventually finishes the      *)
(* task, depositing AutoMigrationFinished and clearing AutoLimits.         *)
(***************************************************************************)
C3_AutoLiveness ==
    /\ []ArmedBlockTicks
    /\ ArmedPositive ~> AutoFinished

C3_Witness ==
    /\ AutoFinished
    /\ last.op = "on_initialize"
    /\ last.pre.AutoLimits.some
    /\ Len(log) >= 3

(***************************************************************************)
(* C4. Item budget: a run of migrate_until_exhaustion with item = N > 0 on *)
(* a task loaded from storage returns with                                 *)
(* dyn_top_items + dyn_child_items <= N.                                   *)
(***************************************************************************)
C4_ItemBudget ==
    (Ran /\ RunLimits.item > 0) =>
        last.task.dyn_top_items + last.task.dyn_child_items <= RunLimits.item

C4_Witness ==
    /\ Ran
    /\ RunLimits.item = 2
    /\ last.task.dyn_top_items = 1
    /\ last.task.dyn_child_items = 1
    /\ PreTask.progress_top.tag = "LastKey"
    /\ ~finished(last.task)

(***************************************************************************)
(* C5. Zero budget: a run with item = 0 or size = 0 returns Ok without a   *)
(* single tick; cursors, dynamic and cumulative counters and the store are *)
(* as they were.                                                           *)
(***************************************************************************)
C5_ZeroBudget ==
    (Ran /\ (RunLimits.item = 0 \/ RunLimits.size = 0)) =>
        /\ last.err = ""
        /\ last.ticks = 0
        /\ last.rewrites = <<>>
        /\ last.task = PreTask
        /\ MigrationProcess = last.pre.MigrationProcess

C5_Witness ==
    /\ ContinuePassed
    /\ last.args.limits.item > 0
    /\ last.args.limits.size = 0
    /\ PreTask.progress_top.tag = "LastKey"
    /\ last.result = "Ok"

StaleWitness ==
    /\ last.op = "continue_migrate"
    /\ last.args.witness_task # PreTask

(***************************************************************************)
(* C6. Witness staleness. As claimed: a continue_migrate whose             *)
(* witness_task differs from the persisted task fails with BadWitness and  *)
(* changes nothing.                                                        *)
(***************************************************************************)
C6_AlwaysBadWitness ==
    StaleWitness => (last.result = "BadWitness" /\ NothingChanged)

\* The three checks continue_migrate makes before it compares the witness.
EarlierChecksPassed ==
    /\ last.pre.SignedMigrationMaxLimits.some
    /\ last.args.limits.size <= last.pre.SignedMigrationMaxLimits.value.size
    /\ last.args.limits.item <= last.pre.SignedMigrationMaxLimits.value.item
    /\ last.pre.balance[last.args.who].free
          >= SignedDepositBase + SignedDepositPerItem * last.args.limits.item

(***************************************************************************)
(* C6, amended. A continue_migrate whose witness_task differs from the     *)
(* persisted task always fails and changes nothing; the error is           *)
(* BadWitness when the three earlier checks pass, and otherwise the error  *)
(* of the first of them that fails.                                        *)
(***************************************************************************)
C6_StaleWitnessRejected ==
    StaleWitness =>
        /\ last.result \in {"SignedMigrationNotAllowed", "MaxSignedLimits",
                             "NotEnoughFunds", "BadWitness"}
        /\ EarlierChecksPassed <=> last.result = "BadWitness"
        /\ NothingChanged

C6_Witness ==
    /\ StaleWitness
    /\ last.result = "BadWitness"
    /\ PreTask.progress_top.tag = "LastKey"
    /\ last.args.limits.item > 0
    /\ last.args.limits.size > 0

(***************************************************************************)
(* C7. Slash on underestimate: a continue_migrate that passes its checks   *)
(* and touches more bytes than real_size_upper returns Ok, costs the       *)
(* caller exactly SignedDepositBase + SignedDepositPerItem * limits.item,  *)
(* leaves nothing on hold and deposits Slashed{who, amount}; one that      *)
(* touches at most real_size_upper bytes does not slash.                   *)
(***************************************************************************)
C7_SlashOnUnderestimate ==
    ContinuePassed =>
        LET who == last.args.who
            deposit == SignedDepositBase + SignedDepositPerItem * last.args.limits.item
            slashes == {i \in EventsNamed("Slashed") :
                          last.events[i].who = who /\ last.events[i].amount = deposit}
        IN  IF last.task.dyn_size > last.args.real_size_upper
            THEN /\ last.result = "Ok"
                 /\ balance[who].free = last.pre.balance[who].free - deposit
                 /\ balance[who].held = 0
                 /\ Cardinality(slashes) = 1
            ELSE /\ balance = last.pre.balance
                 /\ EventsNamed("Slashed") = {}

C7_Witness ==
    /\ ContinuePassed
    /\ last.task.dyn_size > last.args.real_size_upper
    /\ last.args.real_size_upper > 0
    /\ balance[last.args.who].free < last.pre.balance[last.args.who].free

SlashedCall ==
    /\ ContinuePassed
    /\ last.task.dyn_size > last.args.real_size_upper

(***************************************************************************)
(* C8. Progress on a slashed call. As claimed: after a continue_migrate    *)
(* that slashes, the persisted cursor is the one the run reached.          *)
(***************************************************************************)
C8_CursorPersistedOnSlash ==
    SlashedCall =>
        /\ MigrationProcess.progress_top = last.task.progress_top
        /\ MigrationProcess.progress_child = last.task.progress_child

\* What the code does instead: the keys the ticks rewrote stay rewritten, but
\* the call returns before the task is written back, so the persisted task is
\* the one from before the call and the cursor the run reached is dropped.
CursorDroppedOnSlash ==
    SlashedCall =>
        /\ MigrationProcess = last.pre.MigrationProcess
        /\ last.task.progress_top # PreTask.progress_top
              \/ last.task.progress_child # PreTask.progress_child

HonestCall ==
    /\ ContinuePassed
    /\ last.task.dyn_size <= last.args.real_size_upper

(***************************************************************************)
(* C9. Honest signed continuation: a continue_migrate that passes its      *)
(* checks and touches at most real_size_upper bytes writes the task of the *)
(* run to MigrationProcess, deposits exactly one                           *)
(* Migrated{dyn_top_items, dyn_child_items, Signed}, returns Ok with       *)
(* pays_fee = No and leaves the free and held balances as they were.       *)
(***************************************************************************)
C9_HonestContinuation ==
    HonestCall =>
        LET run == migrate_until_exhaustion(
                       Ctx(PreTask, top0, child0, last.pre.AutoLimits),
                       last.args.limits)
        IN  /\ last.result = "Ok"
            /\ last.pays_fee = "No"
            /\ MigrationProcess = Encode(run.task)
            /\ Cardinality(EventsNamed("Migrated")) = 1
            /\ \A i \in EventsNamed("Migrated") :
                  /\ last.events[i].top = run.task.dyn_top_items
                  /\ last.events[i].child = run.task.dyn_child_items
                  /\ last.events[i].compute = "Signed"
            /\ balance = last.pre.balance

C9_Witness ==
    /\ HonestCall
    /\ last.task.dyn_size = last.args.real_size_upper
    /\ last.task.dyn_size > 0
    /\ last.task.dyn_child_items > 0
    /\ MigrationProcess # last.pre.MigrationProcess

FirstFailingCheck ==
    LET max == last.pre.SignedMigrationMaxLimits
        limits == last.args.limits
    IN  IF ~max.some THEN "SignedMigrationNotAllowed"
        ELSE IF limits.size > max.value.size \/ limits.item > max.value.item
        THEN "MaxSignedLimits"
        ELSE IF last.pre.balance[last.args.who].free
                    < SignedDepositBase + SignedDepositPerItem * limits.item
        THEN "NotEnoughFunds"
        ELSE IF last.args.witness_task # PreTask THEN "BadWitness"
        ELSE ""

(***************************************************************************)
(* C10. The caller errors of continue_migrate are checked in the order     *)
(* SignedMigrationNotAllowed, MaxSignedLimits, NotEnoughFunds, BadWitness; *)
(* the first check that fails is the error returned, and a rejected call   *)
(* changes nothing.                                                        *)
(***************************************************************************)
C10_ErrorOrder ==
    (last.op = "continue_migrate" /\ FirstFailingCheck # "") =>
        /\ last.result = FirstFailingCheck
        /\ NothingChanged

C10_Witness ==
    /\ last.op = "continue_migrate"
    /\ last.result = "NotEnoughFunds"
    /\ last.args.witness_task # PreTask
    /\ last.pre.balance[last.args.who].free > 0

\* The key after the persisted cursor, in the namespace the next tick walks.
NextAfterCursor ==
    LET pt == MigrationProcess.progress_top
        pc == MigrationProcess.progress_child
    IN  IF pc.tag = "LastKey"
        THEN next_key(ChildOf(child, transform_child_key(pt.key).value), pc.key)
        ELSE next_key(top, pt.key)

\* The last call was an accepted continue_migrate whose run met an over-long
\* key, with a byte witness that covers the run.
KeyTooLongCall ==
    /\ ContinuePassed
    /\ last.err = "KeyTooLong"
    /\ last.task.dyn_size <= last.args.real_size_upper

\* The keys a cursor can hold after migrating them: those of the store, and
\* the empty key every namespace is started with.
MigratedKeys(ns) == DOMAIN ns \cup {<<>>}

(***************************************************************************)
(* C11. KeyTooLong halts cleanly: a continue_migrate with a matching       *)
(* witness and a covering real_size_upper whose run meets an over-long top *)
(* or child key returns Ok; the over-long key is neither rewritten nor in  *)
(* the cursor, which stays at the key migrated just before it; Halted with *)
(* KeyTooLong is the last event; AutoLimits is None; and every later run   *)
(* from the persisted task with non-zero limits returns KeyTooLong again   *)
(* and leaves the cursor where it is.                                      *)
(***************************************************************************)
C11_KeyTooLongHalts ==
    KeyTooLongCall =>
        /\ last.result = "Ok"
        /\ \A i \in 1..Len(last.rewrites) : Len(last.rewrites[i].key) <= MaxKeyLen
        /\ MigrationProcess.progress_top = last.task.progress_top
        /\ MigrationProcess.progress_child = last.task.progress_child
        /\ MigrationProcess.progress_top.tag = "LastKey"
        /\ MigrationProcess.progress_top.key \in MigratedKeys(top)
        /\ MigrationProcess.progress_child.tag = "LastKey" =>
              MigrationProcess.progress_child.key \in
                  MigratedKeys(ChildOf(child,
                      transform_child_key(MigrationProcess.progress_top.key).value))
        /\ NextAfterCursor.some /\ Len(NextAfterCursor.value) > MaxKeyLen
        /\ last.events # <<>>
        /\ last.events[Len(last.events)] = [name |-> "Halted", error |-> "KeyTooLong"]
        /\ AutoLimits = None
        /\ \A limits \in Limits :
              (limits.item > 0 /\ limits.size > 0) =>
                  LET again == migrate_until_exhaustion(
                                   Ctx(Decode(MigrationProcess), top, child, AutoLimits),
                                   limits)
                  IN  /\ again.err = "KeyTooLong"
                      /\ again.task.progress_top = MigrationProcess.progress_top
                      /\ again.task.progress_child = MigrationProcess.progress_child
                      /\ again.rewrites = <<>>

C11_Witness ==
    /\ KeyTooLongCall
    /\ last.pre.AutoLimits.some
    /\ MigrationProcess.progress_child.tag = "LastKey"
    /\ MigrationProcess # last.pre.MigrationProcess

\* The last call was a hook whose run met an over-long key.
HookKeyTooLong ==
    /\ last.op = "on_initialize"
    /\ last.pre.AutoLimits.some
    /\ last.err = "KeyTooLong"

\* A block leaves the pallet and the store alone, deposits nothing and makes
\* no tick.
IdleBlock ==
    /\ MigrationProcess' = MigrationProcess
    /\ AutoLimits' = AutoLimits
    /\ top' = top
    /\ child' = child
    /\ last'.events = <<>>
    /\ last'.ticks = 0

\* A hook whose run met an over-long key disarmed the automatic migration
\* and deposited Halted{KeyTooLong} once.
HaltedOnce ==
    HookKeyTooLong =>
        /\ AutoLimits = None
        /\ Cardinality(EventsNamed("Halted")) = 1
        /\ \A i \in EventsNamed("Halted") : last.events[i].error = "KeyTooLong"

(***************************************************************************)
(* C12. The automatic migration disables itself on KeyTooLong: a hook      *)
(* whose run returns KeyTooLong ends with AutoLimits = None and exactly    *)
(* one Halted{KeyTooLong} event; and with no administrator to arm it       *)
(* again, every block from a state with AutoLimits = None is idle, so the  *)
(* bad key is not tried again and Halted is not deposited again.           *)
(***************************************************************************)
C12_SelfDisable ==
    /\ []HaltedOnce
    /\ [][AutoLimits = None => IdleBlock]_vars

C12_Witness ==
    /\ last.op = "on_initialize"
    /\ ~last.pre.AutoLimits.some
    /\ NextAfterCursor.some
    /\ Len(NextAfterCursor.value) > MaxKeyLen
    /\ MigrationProcess.progress_child.tag = "LastKey"
    /\ log # <<>>

(***************************************************************************)
(* C13. The disarmed hook is a no-op: an on_initialize that finds          *)
(* AutoLimits = None makes no tick, rewrites no key, deposits no event and *)
(* leaves MigrationProcess (the default task if no migration ever ran) and *)
(* the rest of the pallet state as they were.                              *)
(***************************************************************************)
C13_DisarmedHookNoOp ==
    (last.op = "on_initialize" /\ ~last.pre.AutoLimits.some) =>
        /\ NothingChanged
        /\ last.ticks = 0
        /\ last.task = PreTask

C13_Witness ==
    /\ last.op = "on_initialize"
    /\ ~last.pre.AutoLimits.some
    /\ PreTask.progress_top.tag = "LastKey"
    /\ ~finished(PreTask)
    /\ NextAfterCursor.some

\* The last step was a hook that found the automatic migration armed.
HookRan == last.op = "on_initialize" /\ last.pre.AutoLimits.some

\* The Migrated event of an automatic run with the task's dyn counters.
AutoMigrated ==
    [name |-> "Migrated", top |-> last.task.dyn_top_items,
     child |-> last.task.dyn_child_items, compute |-> "Auto"]

\* The hook persisted its task and deposited AutoMigrationFinished alone when
\* the task is finished, Migrated{Auto} alone otherwise.
OneHookEvent ==
    /\ MigrationProcess = Encode(last.task)
    /\ Cardinality(EventsNamed("AutoMigrationFinished"))
          = (IF finished(last.task) THEN 1 ELSE 0)
    /\ Cardinality(EventsNamed("Migrated")) = (IF finished(last.task) THEN 0 ELSE 1)
    /\ \A i \in EventsNamed("Migrated") : last.events[i] = AutoMigrated

(***************************************************************************)
(* C14 as stated. Every armed on_initialize persists the task of its run   *)
(* and deposits exactly one of AutoMigrationFinished, with AutoLimits      *)
(* cleared, when the task is finished, or Migrated{Auto}, with AutoLimits  *)
(* left armed, when it is not.                                             *)
(***************************************************************************)
C14_OneEventArmedUnlessFinished ==
    HookRan =>
        /\ OneHookEvent
        /\ AutoLimits = (IF finished(last.task) THEN None ELSE last.pre.AutoLimits)

(***************************************************************************)
(* C14, amended. Every armed on_initialize persists the task of its run    *)
(* and deposits exactly one of AutoMigrationFinished (when the task is     *)
(* finished) or Migrated{Auto} (when it is not); AutoLimits is cleared     *)
(* when the task is finished or the run halted (a Halted event was         *)
(* deposited), and is left armed otherwise.                                *)
(***************************************************************************)
C14_OneEventArmedUnlessFinishedOrHalted ==
    HookRan =>
        /\ OneHookEvent
        /\ AutoLimits = (IF finished(last.task) \/ EventsNamed("Halted") # {}
                         THEN None ELSE last.pre.AutoLimits)

\* A halted run that is not finished: Halted, then Migrated, AutoLimits cleared.
C14_Witness ==
    /\ HookRan
    /\ ~finished(last.task)
    /\ EventsNamed("Halted") # {}
    /\ EventsNamed("Migrated") # {}
    /\ AutoLimits = None


\* The three cumulative counters of a persisted task, and their order.
Counters(mp) == <<mp.size, mp.top_items, mp.child_items>>

NoCounterDecreases ==
    \A i \in 1..3 : Counters(MigrationProcess')[i] >= Counters(MigrationProcess)[i]

CountersInU32 == \A i \in 1..3 : Counters(MigrationProcess)[i] \in 0..U32Max

C16_CountersAreSums ==
    finished(Decode(MigrationProcess)) =>
        /\ MigrationProcess.size = sums.size
        /\ MigrationProcess.top_items = sums.top_items
        /\ MigrationProcess.child_items = sums.child_items


\* The last step was a direct key-list migration.
CustomCall == last.op \in {"migrate_custom_top", "migrate_custom_child"}

(***************************************************************************)
(* C17. After any migrate_custom_top or migrate_custom_child call, whether *)
(* it migrated, slashed or failed, MigrationProcess, AutoLimits and        *)
(* SignedMigrationMaxLimits are what they were before the call.            *)
(***************************************************************************)
C17_CustomLeavesTaskAlone ==
    CustomCall =>
        /\ MigrationProcess = last.pre.MigrationProcess
        /\ AutoLimits = last.pre.AutoLimits
        /\ SignedMigrationMaxLimits = last.pre.SignedMigrationMaxLimits

\* A direct migration that rewrote a key in the middle of an armed migration.
C17_Witness ==
    /\ CustomCall
    /\ last.result = "Ok"
    /\ last.rewrites # <<>>
    /\ EventsNamed("Migrated") # {}
    /\ MigrationProcess.progress_top.tag = "LastKey"
    /\ AutoLimits.some

\* The bytes of the values stored under the listed keys, key by key.
RECURSIVE ListedBytes(_, _)
ListedBytes(store, keys) ==
    IF keys = <<>> THEN 0
    ELSE (IF Head(keys) \in DOMAIN store THEN Len(store[Head(keys)]) ELSE 0)
         + ListedBytes(store, Tail(keys))

CustomDeposit == SignedDepositBase + SignedDepositPerItem * Len(last.args.keys)

\* The last step was the named direct migration, sent by a signed account
\* that could hold the deposit.
CustomPassed(op) ==
    /\ last.op = op
    /\ last.args.who # Root
    /\ last.pre.balance[last.args.who].free >= CustomDeposit

\* The call returned Ok, burned exactly the deposit, left nothing on hold
\* and deposited Slashed alone.
CustomSlashed ==
    /\ last.result = "Ok"
    /\ balance[last.args.who].free = last.pre.balance[last.args.who].free - CustomDeposit
    /\ balance[last.args.who].held = 0
    /\ last.events = <<[name |-> "Slashed", who |-> last.args.who,
                        amount |-> CustomDeposit]>>

\* The call returned Ok, left the balances alone and deposited Migrated alone.
CustomMigrated(t, ch) ==
    /\ last.result = "Ok"
    /\ balance = last.pre.balance
    /\ last.events = <<[name |-> "Migrated", top |-> t, child |-> ch,
                        compute |-> "Signed"]>>

(***************************************************************************)
(* C18. A migrate_custom_top call from a signed account that can hold the  *)
(* deposit slashes the caller if and only if the bytes of the listed keys  *)
(* that exist in storage exceed witness_size: then it returns Ok, burns    *)
(* exactly base + per_item * keys.len(), leaves nothing held and deposits  *)
(* Slashed instead of Migrated; with a witness equal or larger it returns  *)
(* Ok, leaves the balance alone and deposits Migrated{keys.len(), 0,       *)
(* Signed}.                                                                *)
(***************************************************************************)
C18_CustomTopSlashIffOver ==
    CustomPassed("migrate_custom_top") =>
        IF ListedBytes(top, last.args.keys) > last.args.real_size_upper
        THEN CustomSlashed
        ELSE CustomMigrated(Len(last.args.keys), 0)

\* Both sides: a witness above the bytes read is accepted, and (in another
\* call) a witness below them is slashed.
C18_Witness ==
    /\ CustomPassed("migrate_custom_top")
    /\ last.rewrites # <<>>
    /\ ListedBytes(top, last.args.keys) > last.args.real_size_upper
    /\ last.args.real_size_upper > 0
    /\ balance[last.args.who].free < last.pre.balance[last.args.who].free

\* The child namespace a prefixed root names.
RootOf(root) == SubSeq(root, Len(DEFAULT_CHILD_STORAGE_KEY_PREFIX) + 1, Len(root))

(***************************************************************************)
(* C19. A migrate_custom_child call on a child root, from a signed account *)
(* that can hold the deposit, slashes the caller if and only if the bytes  *)
(* of the listed child keys that exist differ from total_size, above or    *)
(* below: then it returns Ok with exactly base + per_item *                *)
(* child_keys.len() burned and nothing on hold; with the exact size it     *)
(* returns Ok, leaves the balance alone and deposits Migrated{0,           *)
(* child_keys.len(), Signed}.                                              *)
(***************************************************************************)
C19_CustomChildSlashIffDiffers ==
    (/\ CustomPassed("migrate_custom_child")
     /\ starts_with(last.args.root, DEFAULT_CHILD_STORAGE_KEY_PREFIX)) =>
        IF ListedBytes(ChildOf(child, RootOf(last.args.root)), last.args.keys)
              # last.args.real_size_upper
        THEN CustomSlashed
        ELSE CustomMigrated(0, Len(last.args.keys))

\* A witness larger than the bytes read, and slashed.
C19_Witness ==
    /\ CustomPassed("migrate_custom_child")
    /\ starts_with(last.args.root, DEFAULT_CHILD_STORAGE_KEY_PREFIX)
    /\ ListedBytes(ChildOf(child, RootOf(last.args.root)), last.args.keys)
          < last.args.real_size_upper
    /\ last.events = <<[name |-> "Slashed", who |-> last.args.who,
                        amount |-> CustomDeposit]>>
    /\ balance[last.args.who].free < last.pre.balance[last.args.who].free


(***************************************************************************)
(* C20. While SignedMigrationMaxLimits is None, no call from a signed      *)
(* account, be it continue_migrate, migrate_custom_top or                  *)
(* migrate_custom_child, is accepted or rewrites a key.                    *)
(***************************************************************************)
C20_SignedDisabledWhileUnset ==
    (/\ last.op \in {"continue_migrate", "migrate_custom_top", "migrate_custom_child"}
     /\ last.args.who # Root
     /\ ~last.pre.SignedMigrationMaxLimits.some) =>
        /\ last.result # "Ok"
        /\ last.rewrites = <<>>


\* The call changed neither the task, nor the balances, nor any key.
AdminFrame ==
    /\ MigrationProcess = last.pre.MigrationProcess
    /\ balance = last.pre.balance
    /\ last.rewrites = <<>>

(***************************************************************************)
(* C21. From ControlOrigin, control_auto_migration(x) leaves AutoLimits    *)
(* at exactly x and set_signed_max_limits(l) leaves                        *)
(* SignedMigrationMaxLimits at exactly Some(l), whatever was there before, *)
(* and neither changes MigrationProcess; from any other origin             *)
(* control_auto_migration, set_signed_max_limits and force_set_progress    *)
(* fail with BadOrigin and change nothing.                                 *)
(***************************************************************************)
C21_AdminReplacesOutright ==
    /\ (last.op = "control_auto_migration" /\ last.args.who = Root) =>
            /\ last.result = "Ok"
            /\ AutoLimits = last.args.maybe_config
            /\ SignedMigrationMaxLimits = last.pre.SignedMigrationMaxLimits
            /\ AdminFrame
    /\ (last.op = "set_signed_max_limits" /\ last.args.who = Root) =>
            /\ last.result = "Ok"
            /\ SignedMigrationMaxLimits = Some(last.args.limits)
            /\ AutoLimits = last.pre.AutoLimits
            /\ AdminFrame
    /\ (/\ last.op \in {"control_auto_migration", "set_signed_max_limits",
                         "force_set_progress"}
        /\ last.args.who # Root) =>
            /\ last.result = "BadOrigin"
            /\ NothingChanged

\* Limits that were set are replaced by other limits, in the middle of a
\* migration.
C21_Witness ==
    /\ last.op = "set_signed_max_limits"
    /\ last.args.who = Root
    /\ last.pre.SignedMigrationMaxLimits.some
    /\ last.pre.SignedMigrationMaxLimits.value # last.args.limits
    /\ SignedMigrationMaxLimits = Some(last.args.limits)
    /\ MigrationProcess.progress_top.tag = "LastKey"


\* The last step was force_set_progress from ControlOrigin.
Forced == last.op = "force_set_progress" /\ last.args.who = Root

(***************************************************************************)
(* C22. force_set_progress from ControlOrigin leaves both cursors of       *)
(* MigrationProcess at exactly the given values, for any pair of values,   *)
(* and leaves size, top_items, child_items, AutoLimits,                    *)
(* SignedMigrationMaxLimits, the balances and the store as they were.      *)
(***************************************************************************)
C22_ForceSetProgressFrame ==
    Forced =>
        /\ last.result = "Ok"
        /\ MigrationProcess =
              [last.pre.MigrationProcess EXCEPT
                 !.progress_top = last.args.progress_top,
                 !.progress_child = last.args.progress_child]
        /\ AutoLimits = last.pre.AutoLimits
        /\ SignedMigrationMaxLimits = last.pre.SignedMigrationMaxLimits
        /\ balance = last.pre.balance
        /\ last.rewrites = <<>>
        /\ last.events = <<>>

\* Both cursors overwritten on a task that has already counted something.
C22_Witness ==
    /\ Forced
    /\ last.pre.MigrationProcess.progress_top # last.args.progress_top
    /\ last.pre.MigrationProcess.progress_child # last.args.progress_child
    /\ MigrationProcess.progress_child = last.args.progress_child
    /\ MigrationProcess.size > 0
    /\ MigrationProcess.top_items > 0


\* The last step was one migrate_tick on the task loaded from storage.
Ticked == last.op = "migrate_tick"

\* The context that tick started from: the stored task and the store (a
\* rewrite puts back the value it read, so the store is the initial one).
TickPre == [Ctx(PreTask, top0, child0, last.pre.AutoLimits) EXCEPT !.ticks = 1]

\* What the tick left behind.
TickPost ==
    [Ctx(last.task, top, child, AutoLimits) EXCEPT
        !.events = last.events, !.rewrites = last.rewrites,
        !.ticks = last.ticks, !.err = last.err]

\* migrate_top and then, only if it succeeded, progress_child := ToStart.
TopThenChildToStart(c) ==
    IF c.err = "" THEN [c EXCEPT !.task.progress_child = ToStart] ELSE c

(***************************************************************************)
(* C26. migrate_tick acts on (progress_top, progress_child) as follows:    *)
(* (ToStart, any) is migrate_top; (LastKey, LastKey) is migrate_child;     *)
(* (LastKey(k), ToStart) is migrate_top if k does not start with the       *)
(* child-storage prefix and migrate_child if it does; (LastKey, Complete)  *)
(* is migrate_top and then, only if it succeeded, progress_child :=        *)
(* ToStart; (Complete, any) changes neither cursor, counters nor store.    *)
(***************************************************************************)
C26_TickPrecedence ==
    Ticked =>
        LET pt == PreTask.progress_top
            pc == PreTask.progress_child
        IN  /\ pt.tag = "ToStart" => TickPost = migrate_top(TickPre)
            /\ (pt.tag = "LastKey" /\ pc.tag = "LastKey") =>
                    TickPost = migrate_child(TickPre)
            /\ (pt.tag = "LastKey" /\ pc.tag = "ToStart") =>
                    TickPost = (IF starts_with(pt.key, DEFAULT_CHILD_STORAGE_KEY_PREFIX)
                                THEN migrate_child(TickPre)
                                ELSE migrate_top(TickPre))
            /\ (pt.tag = "LastKey" /\ pc.tag = "Complete") =>
                    TickPost = TopThenChildToStart(migrate_top(TickPre))
            /\ pt.tag = "Complete" =>
                    /\ TickPost = TickPre
                    /\ MigrationProcess = last.pre.MigrationProcess
                    /\ last.rewrites = <<>>

\* A tick at a child root that starts the child walk with a rewrite.
C26_Witness ==
    /\ Ticked
    /\ PreTask.progress_top.tag = "LastKey"
    /\ starts_with(PreTask.progress_top.key, DEFAULT_CHILD_STORAGE_KEY_PREFIX)
    /\ PreTask.progress_child = ToStart
    /\ MigrationProcess.progress_child = LastKey(<<>>)
    /\ MigrationProcess.progress_top = PreTask.progress_top
    /\ last.rewrites # <<>>


\* The last step was a tick on an unfinished task.
TickedUnfinished == Ticked /\ ~finished(PreTask)

\* What that tick changed and counted (the dyn counters start at zero).
TopMoved == last.task.progress_top # PreTask.progress_top

ChildMoved == last.task.progress_child # PreTask.progress_child

TickItems == last.task.dyn_top_items + last.task.dyn_child_items

(***************************************************************************)
(* C27 as stated. Each migrate_tick on an unfinished task changes exactly  *)
(* one of progress_top and progress_child, rewrites exactly one key and    *)
(* increases dyn_top_items + dyn_child_items by exactly 1.                 *)
(***************************************************************************)
C27_ExactlyOneKeyPerTick ==
    TickedUnfinished =>
        /\ TopMoved # ChildMoved
        /\ Len(last.rewrites) = 1
        /\ TickItems = 1

(***************************************************************************)
(* C27, amended. Each migrate_tick on an unfinished task handles at most   *)
(* one key: it rewrites at most one key, and only a key it counted;        *)
(* dyn_top_items + dyn_child_items increases by 1 when the tick visits a   *)
(* key and by 0 when it finds no further key and marks the cursor          *)
(* Complete; a tick that fails with KeyTooLong changes no cursor, counter  *)
(* or key; a tick that succeeds changes progress_top or progress_child,    *)
(* and both only when it resumes the top walk after a finished child walk  *)
(* (progress_top advances and progress_child goes from Complete to         *)
(* ToStart).                                                               *)
(***************************************************************************)
C27_AtMostOneKeyPerTick ==
    TickedUnfinished =>
        /\ Len(last.rewrites) <= TickItems
        /\ TickItems <= 1
        /\ last.err # "" =>
              /\ last.err = "KeyTooLong"
              /\ MigrationProcess = last.pre.MigrationProcess
              /\ TickItems = 0
        /\ last.err = "" =>
              /\ TopMoved \/ ChildMoved
              /\ (TopMoved /\ ChildMoved) =>
                    /\ PreTask.progress_child = Complete
                    /\ last.task.progress_child = ToStart
              /\ TickItems = 0 <=>
                    \/ TopMoved /\ last.task.progress_top = Complete
                    \/ ChildMoved /\ last.task.progress_child = Complete

\* A tick that resumes the top walk: both cursors change, one key is
\* rewritten.
C27_Witness ==
    /\ TickedUnfinished
    /\ TopMoved
    /\ ChildMoved
    /\ TickItems = 1
    /\ Len(last.rewrites) = 1


\* The stored top cursor rests on a child root key.
AtChildRoot ==
    /\ MigrationProcess.progress_top.tag = "LastKey"
    /\ starts_with(MigrationProcess.progress_top.key, DEFAULT_CHILD_STORAGE_KEY_PREFIX)

\* The child namespace of that root.
RootNamespace == ChildOf(child, RootOf(MigrationProcess.progress_top.key))

\* The top walk stands still while the child walk is not Complete: the top
\* cursor keeps its value and no top key is rewritten.
TopWaitsForChild ==
    (AtChildRoot /\ MigrationProcess.progress_child # Complete) =>
        /\ MigrationProcess'.progress_top = MigrationProcess.progress_top
        /\ \A i \in 1..Len(last'.rewrites) : last'.rewrites[i].ns = "child"

\* The child walk takes the keys of the namespace one after the other and
\* is Complete only when none is left.
ChildWalksInOrder ==
    (AtChildRoot /\ MigrationProcess.progress_child # Complete
        /\ MigrationProcess'.progress_child # MigrationProcess.progress_child) =>
        LET Walked(pc, next) ==
                MigrationProcess'.progress_child =
                    (IF pc.tag = "ToStart" THEN LastKey(<<>>)
                     ELSE IF next.some THEN LastKey(next.value) ELSE Complete)
        IN  Walked(MigrationProcess.progress_child,
                   next_key(RootNamespace, MigrationProcess.progress_child.key))

(***************************************************************************)
(* C28. Once progress_top is LastKey(k) with k a child root key, it keeps  *)
(* that value, and no top key is rewritten by the ticks, until             *)
(* progress_child has walked the child namespace of k key by key and is    *)
(* Complete.                                                               *)
(***************************************************************************)
C28_ChildWalkBeforeTop == [][TopWaitsForChild /\ ChildWalksInOrder]_vars

\* The tick that resumes the top walk after a finished child walk, with a
\* top key behind the child root.
C28_Witness ==
    /\ Ticked
    /\ PreTask.progress_top.tag = "LastKey"
    /\ starts_with(PreTask.progress_top.key, DEFAULT_CHILD_STORAGE_KEY_PREFIX)
    /\ PreTask.progress_child = Complete
    /\ MigrationProcess.progress_top.tag = "LastKey"
    /\ MigrationProcess.progress_top # PreTask.progress_top
    /\ \E i \in 1..Len(log) :
          /\ log[i].ns = "child"
          /\ log[i].root = RootOf(PreTask.progress_top.key)
    /\ last.rewrites # <<>>


(***************************************************************************)
(* C29. In every state reached from the default task without               *)
(* force_set_progress, progress_child differs from ToStart only if         *)
(* progress_top is LastKey(k) with k starting with the child-storage       *)
(* prefix; so progress_child is ToStart whenever progress_top is ToStart   *)
(* or Complete.                                                            *)
(***************************************************************************)
C29_CursorPair ==
    /\ MigrationProcess.progress_child # ToStart => AtChildRoot
    /\ MigrationProcess.progress_top.tag \in {"ToStart", "Complete"} =>
            MigrationProcess.progress_child = ToStart

\* A run that stopped in the middle of a child walk, after one that had
\* stopped on the child root.
C29_Witness ==
    /\ Ran
    /\ AtChildRoot
    /\ PreTask.progress_top = MigrationProcess.progress_top
    /\ PreTask.progress_child = ToStart
    /\ MigrationProcess.progress_child.tag = "LastKey"
    /\ last.rewrites # <<>>


\* Cursor b is further than cursor a.
Before(a, b) ==
    \/ a.tag = "ToStart" /\ b.tag # "ToStart"
    \/ a.tag = "LastKey" /\ b.tag = "LastKey" /\ LexLess(a.key, b.key)
    \/ a.tag = "LastKey" /\ b.tag = "Complete"

NotBack(a, b) == a = b \/ Before(a, b)

TopNotBack == NotBack(MigrationProcess.progress_top, MigrationProcess'.progress_top)

ChildNotBack == NotBack(MigrationProcess.progress_child, MigrationProcess'.progress_child)

(***************************************************************************)
(* C30 as stated. Without force_set_progress each of progress_top and      *)
(* progress_child only moves forward: ToStart -> LastKey, LastKey(a) ->    *)
(* LastKey(b) with b > a, LastKey -> Complete; never back to ToStart or    *)
(* to a smaller key.                                                       *)
(***************************************************************************)
C30_CursorsOnlyForward == [][TopNotBack /\ ChildNotBack]_vars

(***************************************************************************)
(* C30, amended. Without force_set_progress progress_top only moves        *)
(* forward: ToStart -> LastKey, LastKey(a) -> LastKey(b) with b > a,       *)
(* LastKey -> Complete. progress_child moves forward in the same way       *)
(* while progress_top rests on one child root; it goes back (to ToStart,   *)
(* and from there into the next child namespace) only in a step in which   *)
(* progress_top moves forward from a child root key.                       *)
(***************************************************************************)
C30_TopForwardChildPerRoot ==
    [][/\ TopNotBack
       /\ ~ChildNotBack =>
             /\ AtChildRoot
             /\ Before(MigrationProcess.progress_top, MigrationProcess'.progress_top)]_vars

\* A run that finished a child walk and resumed the top walk: the child
\* cursor is back at ToStart, the top cursor is past the child root.
C30_Witness ==
    /\ Ran
    /\ PreTask.progress_child.tag = "LastKey"
    /\ starts_with(PreTask.progress_top.key, DEFAULT_CHILD_STORAGE_KEY_PREFIX)
    /\ MigrationProcess.progress_child = ToStart
    /\ Before(PreTask.progress_top, MigrationProcess.progress_top)

(***************************************************************************)
(* What the HRMP properties read off the record of the last call.          *)
(***************************************************************************)
HrmpCalled == last.op # "genesis"

\* The channel is in HrmpChannels now and was not before the last call.
Appeared(c) ==
    /\ HrmpCalled
    /\ c \notin DOMAIN last.pre.HrmpChannels
    /\ c \in DOMAIN hrmp.HrmpChannels

\* The request of the channel was there, confirmed, before the last call.
WasConfirmed(c) ==
    /\ c \in DOMAIN last.pre.HrmpOpenChannelRequests
    /\ last.pre.HrmpOpenChannelRequests[c].confirmed

\* The request of the channel is confirmed now and was not before the call.
NewlyConfirmed(c) ==
    /\ HrmpCalled
    /\ c \in DOMAIN hrmp.HrmpOpenChannelRequests
    /\ hrmp.HrmpOpenChannelRequests[c].confirmed
    /\ ~WasConfirmed(c)

\* accept_open_channel ran for the recipient of the channel.
AcceptedFor(c) ==
    \/ /\ last.op = "hrmp_accept_open_channel"
       /\ last.args.origin = c.recipient
       /\ last.args.sender = c.sender
    \/ /\ last.op = "force_open_hrmp_channel"
       /\ last.args.recipient = c.recipient
       /\ last.args.sender = c.sender

C24_OccupancyWithinBounds ==
    \A c \in DOMAIN hrmp.HrmpChannels :
        /\ 0 <= hrmp.HrmpChannels[c].msg_count
        /\ hrmp.HrmpChannels[c].msg_count <= hrmp.HrmpChannels[c].max_capacity
        /\ 0 <= hrmp.HrmpChannels[c].total_size
        /\ hrmp.HrmpChannels[c].total_size <= hrmp.HrmpChannels[c].max_total_size

\* prune_hrmp took one of the two messages of a full channel.
C24_Witness ==
    /\ last.op = "prune_hrmp"
    /\ \E c \in DOMAIN hrmp.HrmpChannels \cap DOMAIN last.pre.HrmpChannels :
          /\ last.pre.HrmpChannels[c].msg_count = last.pre.HrmpChannels[c].max_capacity
          /\ hrmp.HrmpChannels[c].msg_count = 1
          /\ hrmp.HrmpChannels[c].total_size < last.pre.HrmpChannels[c].total_size
          /\ Len(hrmp.HrmpChannelContents[c]) = 1

\* The last call was hrmp_cancel_open_request.
Cancelled == last.op = "hrmp_cancel_open_request"

\* Before the call the request of the channel was pending: there, and not
\* yet confirmed.
WasPending(c) ==
    /\ c \in DOMAIN last.pre.HrmpOpenChannelRequests
    /\ ~last.pre.HrmpOpenChannelRequests[c].confirmed

\* The witness of the call covers the list of open requests.
WitnessCovers == Len(last.pre.HrmpOpenChannelRequestsList) <= last.args.open_requests

ListItems(v) == {v[i] : i \in 1..Len(v)}

\* The call removed the request from the set and from the list, took one
\* off the count of the sender, unreserved the deposit of the request and
\* changed nothing else.
CancelTookEffect(c) ==
    /\ last.err = ""
    /\ c \notin DOMAIN hrmp.HrmpOpenChannelRequests
    /\ c \notin ListItems(hrmp.HrmpOpenChannelRequestsList)
    /\ ListItems(hrmp.HrmpOpenChannelRequestsList)
          = ListItems(last.pre.HrmpOpenChannelRequestsList) \ {c}
    /\ Len(hrmp.HrmpOpenChannelRequestsList)
          = Len(last.pre.HrmpOpenChannelRequestsList) - 1
    /\ \A d \in DOMAIN hrmp.HrmpOpenChannelRequests :
          hrmp.HrmpOpenChannelRequests[d] = last.pre.HrmpOpenChannelRequests[d]
    /\ hrmp.HrmpOpenChannelRequestCount[c.sender]
          = last.pre.HrmpOpenChannelRequestCount[c.sender] - 1
    /\ hrmp.reserved[c.sender]
          = last.pre.reserved[c.sender] - last.pre.HrmpOpenChannelRequests[c].sender_deposit
    /\ hrmp.free[c.sender]
          = last.pre.free[c.sender] + last.pre.HrmpOpenChannelRequests[c].sender_deposit
    /\ [hrmp EXCEPT !.HrmpOpenChannelRequests = last.pre.HrmpOpenChannelRequests,
                    !.HrmpOpenChannelRequestsList = last.pre.HrmpOpenChannelRequestsList,
                    !.HrmpOpenChannelRequestCount = last.pre.HrmpOpenChannelRequestCount,
                    !.reserved = last.pre.reserved,
                    !.free = last.pre.free] = last.pre

CancelRefused(err) == last.err = err /\ hrmp = last.pre

\* What the claim says of a call with these arguments.
CancelOutcome(origin, c) ==
    /\ is_participant(c, origin) /\ WasPending(c) => CancelTookEffect(c)
    /\ is_participant(c, origin) /\ WasConfirmed(c) =>
          CancelRefused("OpenHrmpChannelAlreadyConfirmed")
    /\ ~is_participant(c, origin) => CancelRefused("CancelHrmpOpenChannelUnauthorized")

(***************************************************************************)
(* C25, as stated. hrmp_cancel_open_request by the sender or the           *)
(* recipient of a pending, unconfirmed request removes the request from    *)
(* the set and the list, decrements the count of the sender and unreserves *)
(* the sender's deposit; for a confirmed request it fails with             *)
(* OpenHrmpChannelAlreadyConfirmed, for a non-participant with             *)
(* CancelHrmpOpenChannelUnauthorized, both leaving the storage unchanged.  *)
(***************************************************************************)
C25_CancelTakesEffect ==
    Cancelled => CancelOutcome(last.args.origin, last.args.channel_id)

(***************************************************************************)
(* C25, amended. The same, for a call whose witness open_requests is not   *)
(* less than the length of HrmpOpenChannelRequestsList; a call with a      *)
(* smaller witness fails with WrongWitness, whoever makes it, and leaves   *)
(* the storage unchanged.                                                  *)
(***************************************************************************)
C25_CancelTakesEffectWithWitness ==
    Cancelled =>
        IF WitnessCovers
        THEN CancelOutcome(last.args.origin, last.args.channel_id)
        ELSE CancelRefused("WrongWitness")

\* The recipient cancelled the first of two pending requests.
C25_Witness ==
    /\ Cancelled
    /\ last.err = ""
    /\ last.args.origin = last.args.channel_id.recipient
    /\ Len(last.pre.HrmpOpenChannelRequestsList) = 2
    /\ last.pre.HrmpOpenChannelRequestsList[1] = last.args.channel_id
    /\ last.pre.HrmpOpenChannelRequests[last.args.channel_id].sender_deposit > 0
    /\ Len(hrmp.HrmpOpenChannelRequestsList) = 1

(***************************************************************************)
(* What the properties read off a call of migrate_until_exhaustion.        *)
(***************************************************************************)
Exhausted == last.op = "migrate_until_exhaustion"

\* The run was given non-zero limits.
NonZeroLimits == last.args.limits.item > 0 /\ last.args.limits.size > 0

\* The byte length of the last value the run rewrote (0 if it rewrote none).
LastValueLen ==
    LET Value(e) == IF e.ns = "top" THEN top[e.key] ELSE child[e.root][e.key]
    IN  IF last.rewrites = << >> THEN 0
        ELSE Len(Value(last.rewrites[Len(last.rewrites)]))

(***************************************************************************)
(* C31. For non-zero limits and a task loaded from storage, when           *)
(* migrate_until_exhaustion returns dyn_size is below limits.size plus the *)
(* length of the last value migrated: the size budget is overshot by less  *)
(* than one value.                                                         *)
(***************************************************************************)
C31_SizeOvershootBounded ==
    Exhausted /\ last.args.reload /\ NonZeroLimits =>
        last.task.dyn_size < last.args.limits.size + LastValueLen

\* A run that overshot its size budget.
C31_Witness ==
    /\ Exhausted
    /\ last.args.reload
    /\ NonZeroLimits
    /\ last.task.dyn_size > last.args.limits.size
    /\ Len(last.rewrites) >= 2

\* The bytes of the values the run rewrote.
RECURSIVE BytesOf(_)
BytesOf(entries) ==
    LET Value(e) == IF e.ns = "top" THEN top[e.key] ELSE child[e.root][e.key]
    IN  IF entries = << >> THEN 0
        ELSE Len(Value(Head(entries))) + BytesOf(Tail(entries))

(***************************************************************************)
(* C32. After any call of migrate_until_exhaustion with non-zero limits,   *)
(* a second call on the same in-memory task included, the dynamic counters *)
(* measure the work of that call only: dyn_size is the number of bytes the *)
(* call rewrote, and exactly that much is folded into the cumulative size. *)
(***************************************************************************)
C32_DynCountersPerCall ==
    Exhausted /\ NonZeroLimits =>
        /\ last.task.dyn_size = BytesOf(last.rewrites)
        /\ last.err = "" => last.task.size = last.args.task.size + BytesOf(last.rewrites)

(***************************************************************************)
(* C33. Whenever the exhaustion run of a continue_migrate call with a      *)
(* matching witness returns KeyTooLong, whatever real_size_upper is, the   *)
(* call is reported Ok and the migration is halted: AutoLimits is None     *)
(* afterwards and Halted{KeyTooLong} is emitted.                           *)
(***************************************************************************)
C33_KeyTooLongAlwaysHalts ==
    ContinuePassed /\ last.err = "KeyTooLong" =>
        /\ last.result = "Ok"
        /\ AutoLimits = None
        /\ \E i \in EventsNamed("Halted") : last.events[i].error = "KeyTooLong"

\* An armed hook whose first tick walks a child namespace although the top
\* cursor is not a default child root.
BadRootRun ==
    /\ last.op = "on_initialize"
    /\ last.pre.AutoLimits.some
    /\ PreTask.progress_top.tag = "LastKey"
    /\ PreTask.progress_child.tag = "LastKey"
    /\ ~transform_child_key(PreTask.progress_top.key).some

\* The migration was halted with BadChildRoot.
HaltedBadChildRoot ==
    /\ AutoLimits = None
    /\ \E i \in EventsNamed("Halted") : last.events[i].error = "BadChildRoot"

(***************************************************************************)
(* C34. When a tick has to walk a child namespace and the top cursor does  *)
(* not decode as a default child root, the exhaustion call stops at that   *)
(* tick and returns BadChildRoot without reading or writing any child key  *)
(* (the cursors stay where they were, nothing is rewritten), AutoLimits is *)
(* cleared and Halted{BadChildRoot} is emitted.                            *)
(***************************************************************************)
C34_BadChildRootStops ==
    BadRootRun =>
        /\ last.err = "BadChildRoot"
        /\ last.rewrites = << >>
        /\ last.task.progress_top = PreTask.progress_top
        /\ last.task.progress_child = PreTask.progress_child
        /\ HaltedBadChildRoot

\* The entries some run has rewritten so far.
Rewritten == {log[i] : i \in 1..Len(log)}

\* The persisted cursor is at or past top key k.
TopPassed(k) ==
    \/ MigrationProcess.progress_top.tag = "Complete"
    \/ /\ MigrationProcess.progress_top.tag = "LastKey"
       /\ k = MigrationProcess.progress_top.key
             \/ LexLess(k, MigrationProcess.progress_top.key)

\* The persisted cursor is at or past key k of the child trie of root r.
ChildPassed(r, k) ==
    LET root_key == DEFAULT_CHILD_STORAGE_KEY_PREFIX \o r
        InTrie(c) ==
            \/ c.tag = "Complete"
            \/ c.tag = "LastKey" /\ (k = c.key \/ LexLess(k, c.key))
    IN  \/ MigrationProcess.progress_top.tag = "Complete"
        \/ /\ MigrationProcess.progress_top.tag = "LastKey"
           /\ \/ LexLess(root_key, MigrationProcess.progress_top.key)
              \/ /\ root_key = MigrationProcess.progress_top.key
                 /\ InTrie(MigrationProcess.progress_child)

\* Every run so far started from the task persisted when it began.
StartsFromPersisted ==
    Ran =>
        last.task = migrate_until_exhaustion(
                        Ctx(PreTask, top, child, last.pre.AutoLimits), RunLimits).task

\* The persisted cursor is past no entry that was not rewritten, and a
\* finished migration has rewritten every entry.
NoKeyLost ==
    /\ \A k \in DOMAIN top0 : TopPassed(k) => TopEntry(k) \in Rewritten
    /\ \A r \in DOMAIN child0 : \A k \in DOMAIN child0[r] :
          ChildPassed(r, k) => ChildEntry(r, k) \in Rewritten
    /\ finished(Decode(MigrationProcess)) => AllEntries \subseteq Rewritten

\* A continue_migrate whose witness is the genesis task, sent after a run has
\* moved the persisted task on.
OutrunWitness ==
    /\ last.op = "continue_migrate"
    /\ last.args.witness_task = DefaultTask
    /\ PreTask # DefaultTask

(***************************************************************************)
(* C35. For any interleaving of hooks (armed or not) and continue_migrate  *)
(* calls (accepted, rejected or slashed) on a store nothing else writes,   *)
(* every run starts from the latest persisted MigrationProcess, the        *)
(* persisted cursor never passes a key that was not rewritten, a finished  *)
(* migration has rewritten every top and child key, and a continue_migrate *)
(* whose witness was taken before another run advanced the task is         *)
(* rejected with BadWitness.                                               *)
(***************************************************************************)
C35_InterleavingLosesNoKey ==
    /\ StartsFromPersisted
    /\ NoKeyLost
    /\ OutrunWitness => last.result = "BadWitness" /\ NothingChanged

(***************************************************************************)
(* C35, amended: the same, but the outrun continue_migrate is rejected     *)
(* with BadWitness only if it passes the earlier checks; otherwise it is   *)
(* rejected with the error of the first check that fails. In both cases    *)
(* nothing changes.                                                        *)
(***************************************************************************)
C35_InterleavingLosesNoKeyChecksFirst ==
    /\ StartsFromPersisted
    /\ NoKeyLost
    /\ OutrunWitness =>
          /\ NothingChanged
          /\ last.result =
                CASE ~last.pre.SignedMigrationMaxLimits.some -> "SignedMigrationNotAllowed"
                  [] ~(last.args.limits.size <= last.pre.SignedMigrationMaxLimits.value.size
                       /\ last.args.limits.item
                             <= last.pre.SignedMigrationMaxLimits.value.item)
                        -> "MaxSignedLimits"
                  [] ~EarlierChecksPassed -> "NotEnoughFunds"
                  [] OTHER -> "BadWitness"

\* Runs have taken the task to the end of a store of two entries or more, and
\* a call built on the genesis witness has just been refused.
C35_Witness ==
    /\ OutrunWitness
    /\ last.result = "BadWitness"
    /\ finished(Decode(MigrationProcess))
    /\ Cardinality(AllEntries) >= 2
    /\ AllEntries \subseteq Rewritten

\* What migrate_tick invokes for the task it is given.
InvokesChild(task) ==
    /\ task.progress_top.tag = "LastKey"
    /\ \/ task.progress_child.tag = "LastKey"
       \/ /\ task.progress_child.tag = "ToStart"
          /\ starts_with(task.progress_top.key, DEFAULT_CHILD_STORAGE_KEY_PREFIX)

InvokesTop(task) ==
    /\ task.progress_top.tag # "Complete"
    /\ ~InvokesChild(task)

(***************************************************************************)
(* C36. Starting from the default task and without force_set_progress,     *)
(* migrate_child is only invoked while progress_top is LastKey(k) with k   *)
(* carrying the child-storage prefix and progress_child is ToStart or      *)
(* LastKey, migrate_top is never invoked while progress_top is Complete,   *)
(* so no tick falls through a defensive branch (a tick of an unfinished    *)
(* task moves a cursor or fails with KeyTooLong) and Halted{BadChildRoot}  *)
(* is never emitted.                                                       *)
(***************************************************************************)
C36_DefensiveUnreachable ==
    Ticked =>
        /\ InvokesChild(PreTask) =>
              /\ starts_with(PreTask.progress_top.key, DEFAULT_CHILD_STORAGE_KEY_PREFIX)
              /\ PreTask.progress_child.tag \in {"ToStart", "LastKey"}
              /\ last.task.progress_top = PreTask.progress_top
              /\ last.err = "" => last.task.progress_child # PreTask.progress_child
        /\ InvokesTop(PreTask) =>
              /\ last.task.progress_child \in {PreTask.progress_child, ToStart}
              /\ last.err = "" => last.task.progress_top # PreTask.progress_top
        /\ last.err \in {"", "KeyTooLong"}
        /\ EventsNamed("Halted") = {}
        /\ AutoLimits = last.pre.AutoLimits

\* A tick in the middle of a child trie rewrote a child key.
C36_Witness ==
    /\ Ticked
    /\ InvokesChild(PreTask)
    /\ PreTask.progress_child.tag = "LastKey"
    /\ last.rewrites # << >>
    /\ last.task.progress_child.tag = "LastKey"

\* A list holds no id twice.
NoDuplicates(v) == \A i, j \in 1..Len(v) : v[i] = v[j] => i = j

(***************************************************************************)
(* C37. In every reachable state the keys of HrmpOpenChannelRequests are   *)
(* the ids of HrmpOpenChannelRequestsList, and HrmpCloseChannelRequests is *)
(* the set of ids of HrmpCloseChannelRequestsList, each id listed once;    *)
(* hence process_hrmp_open_channel_requests always finds the request of a  *)
(* listed id and its expect() does not panic.                              *)
(***************************************************************************)
C37_RequestSetsMatchLists ==
    /\ DOMAIN hrmp.HrmpOpenChannelRequests = ListItems(hrmp.HrmpOpenChannelRequestsList)
    /\ NoDuplicates(hrmp.HrmpOpenChannelRequestsList)
    /\ hrmp.HrmpCloseChannelRequests = ListItems(hrmp.HrmpCloseChannelRequestsList)
    /\ NoDuplicates(hrmp.HrmpCloseChannelRequestsList)
    /\ ~hrmp.panic

\* A session change processed a list of two open requests, opened the
\* confirmed one and kept the other.
C37_Witness ==
    /\ last.op = "initializer_on_new_session"
    /\ Len(last.pre.HrmpOpenChannelRequestsList) = 2
    /\ Len(hrmp.HrmpOpenChannelRequestsList) = 1
    /\ hrmp.HrmpChannels # << >>

(***************************************************************************)
(* C38. For every para X, HrmpOpenChannelRequestCount[X] is the number of  *)
(* entries of HrmpOpenChannelRequests whose sender is X (no entry, here 0, *)
(* when there is none), in every reachable state.                          *)
(***************************************************************************)
C38_OpenRequestCountExact ==
    \A x \in ParaIds :
        hrmp.HrmpOpenChannelRequestCount[x] =
            Cardinality({c \in DOMAIN hrmp.HrmpOpenChannelRequests : c.sender = x})

\* The senders and the recipients an index lists.
Listed(index, p) == ListItems(index[p])

\* A vector is strictly ascending.
Ascending(v) == \A i \in 1..(Len(v) - 1) : v[i] < v[i + 1]

(***************************************************************************)
(* C39. In every reachable state, S is in HrmpIngressChannelsIndex[R] iff  *)
(* R is in HrmpEgressChannelsIndex[S] iff HrmpChannels contains (S, R);    *)
(* every index vector is sorted ascending without duplicates; and          *)
(* HrmpChannelContents is non-empty only for channels of HrmpChannels.     *)
(***************************************************************************)
C39_IndexesMirrorChannels ==
    /\ \A c \in ChannelIds :
          /\ (c.sender \in Listed(hrmp.HrmpIngressChannelsIndex, c.recipient))
                <=> (c \in DOMAIN hrmp.HrmpChannels)
          /\ (c.recipient \in Listed(hrmp.HrmpEgressChannelsIndex, c.sender))
                <=> (c \in DOMAIN hrmp.HrmpChannels)
          /\ hrmp.HrmpChannelContents[c] # << >> => c \in DOMAIN hrmp.HrmpChannels
    /\ DOMAIN hrmp.HrmpChannels \subseteq ChannelIds
    /\ \A p \in ParaIds :
          /\ Ascending(hrmp.HrmpIngressChannelsIndex[p])
          /\ Ascending(hrmp.HrmpEgressChannelsIndex[p])
          /\ p \notin Listed(hrmp.HrmpIngressChannelsIndex, p)
          /\ p \notin Listed(hrmp.HrmpEgressChannelsIndex, p)

\* At the last block all three paras are registered, ParaB receives from
\* both others and the channel from ParaC holds a message.
C39_Witness ==
    /\ hrmp.HrmpIngressChannelsIndex[ParaB] = <<ParaA, ParaC>>
    /\ hrmp.HrmpChannelContents[HrmpChannelId(ParaC, ParaB)] # << >>
    /\ hrmp.HrmpEgressChannelsIndex[ParaC] = <<ParaB>>
    /\ hrmp.paras = ParaIds
    /\ hrmp.now = MaxBlock

\* The last call was check_hrmp_watermark.
WatermarkChecked == last.op = "check_hrmp_watermark"

\* The block numbers of the digest of a recipient.
DigestBlocks(h, recipient) ==
    {h.HrmpChannelDigests[recipient][i].block_no :
       i \in 1..Len(h.HrmpChannelDigests[recipient])}

\* C40: check_hrmp_watermark never accepts a watermark ahead of the relay
\* parent (AheadRelayParent), rejects one below the stored watermark
\* (AdvancementRule), accepts one only if it is greater than the stored
\* watermark unless the stored watermark already equals the relay-parent
\* number, and accepts only the relay-parent number itself or a block number
\* of the digest of the recipient; anything else it rejects with
\* LandsOnBlockWithNoMessages.
C40_WatermarkAcceptance ==
    WatermarkChecked =>
        LET w == last.args.new_hrmp_watermark
            relay_parent == last.args.relay_chain_parent_number
            stored == last.pre.HrmpWatermarks[last.args.recipient]
            below == stored.some /\ w < stored.value
        IN  /\ w > relay_parent => last.err = "AheadRelayParent"
            /\ (w <= relay_parent /\ below) => last.err = "AdvancementRule"
            /\ last.err = "" =>
                  /\ w <= relay_parent
                  /\ (stored.some /\ stored.value # relay_parent) => w > stored.value
                  /\ w = relay_parent \/ w \in DigestBlocks(last.pre, last.args.recipient)
            /\ (w <= relay_parent /\ ~below /\ last.err # "") =>
                  last.err = "LandsOnBlockWithNoMessages"

====
